---------------------------- MODULE Spec2Model ----------------------------
(***************************************************************************)
(* A model of websocket-tools (AlexHarker/websocket-tools).                *)
(*                                                                         *)
(* Part 1, the connection registry of ws_server_base: the two std::maps    *)
(* m_map_from_connection and m_map_from_id, find / add_connection /        *)
(* remove_connection / new_id / size.                                      *)
(*                                                                         *)
(* Part 2, the life of one object made by ws_base::create: the constructor *)
(* and destructor of nw_ws_client and nw_ws_server with their              *)
(* connection_completion, the state blocks and the receive block that the  *)
(* Network framework runs on the object's serial dispatch queue, and the   *)
(* synchronous cw_ws_client and cw_ws_server.                              *)
(*                                                                         *)
(* Part 3, a server that create has returned and its peers: the            *)
(* connection_block, client_state_block and receive_block of nw_ws_server  *)
(* on the server's serial queue, the cw_handlers of cw_ws_server, and the  *)
(* owner pointer every handler call passes.                                *)
(*                                                                         *)
(* Part 4, send of both servers, the registry with add_connection and      *)
(* remove_connection on several threads, and the registry under calls for  *)
(* connections that are not registered.                                    *)
(*                                                                         *)
(* Part 5, the registry up to the exhaustion of ws_connection_id, its      *)
(* lookups, the loop over m_map_from_id on a thread of the caller beside   *)
(* the callbacks of the backend, and the references held on the native     *)
(* object of a client or server.                                           *)
(*                                                                         *)
(* Part 6, add_connection for a connection that is registered already, and *)
(* send of the clients with what the backend reports for a send.           *)
(***************************************************************************)
EXTENDS Naturals, Integers, FiniteSets, Sequences, TLC

(***************************************************************************)
(* Bounds of the model.                                                    *)
(***************************************************************************)

\* Number of distinct native connection handles the backend can hand out.
NumConn == 3

\* Width in bits of ws_connection_id in the model (uintptr_t in the source).
\* NumConn stays below 2^IdBits - 1: a process cannot hold as many map
\* entries as there are uintptr_t values.
IdBits == 3

\* Most receive_block deliveries with content for one client.
MaxReceive == 2

\* Most block invocations waiting on the serial dispatch queue at once.
MaxQueue == 3

\* Number of peers that connect to a server.
NumPeers == 2

\* Most complete messages one peer sends to a server.
MaxPeerReceive == 1

\* Number of threads that call into the registry at the same time.
NumThreads == 2

(***************************************************************************)
(* Values.                                                                 *)
(***************************************************************************)

\* nullptr, as a connection_type and as a handle_type.
NULL == 0

\* The native connection handles (non-null pointers).
Connections == 1 .. NumConn

\* The native handles of the connections a server accepts from its peers.
Peers == 1 .. NumPeers

\* The backend threads that run connect and close callbacks.
Threads == 1 .. NumThreads

\* The owner pointers a caller may pass to create, and the value of a copy
\* of the owner pointer that has not been written.
Owners == {"owner_a", "owner_b"}

NoOwner == "no_owner"

\* 2^n
RECURSIVE Pow2(_)
Pow2(n) == IF n = 0 THEN 1 ELSE 2 * Pow2(n - 1)

\* The values of ws_connection_id: unsigned, arithmetic modulo 2^IdBits.
IdModulus == Pow2(IdBits)

Ids == 0 .. (IdModulus - 1)

\* The time_out, in milliseconds, of the constructors' first wait.
nw_ws_connection_timeout_ms == 400

\* As many native connection handles as there are values of ws_connection_id.
Handles == 1 .. IdModulus

\* The value find(connection) returns for an unregistered connection:
\* -1 converted to ws_connection_id.
InvalidId == (0 - 1) % IdModulus

VARIABLES
    \* ---- registry (ws_server_base) ----
    m_map_from_connection,  \* std::map<const_connection_type, ws_connection_id>
    m_map_from_id,          \* std::map<ws_connection_id, connection_type>
    call,                   \* the last registry call that returned: op, argument, result
    held,                   \* the caller's record: live connection -> id add_connection returned
    \* ---- one client object (ws_base::create, nw_ws_client, cw_ws_client) ----
    object_type,            \* the class T that create constructs
    pc,                     \* where the thread that called create (and later delete) stands
    result,                 \* what create returned: "pending", "object" or "null"
    m_handle,               \* ws_base::m_handle
    m_mode,                 \* connection_completion::m_mode
    expired,                \* clock::now() has reached exit_time of the timed wait
    ctor_cancelled,         \* the constructor's timeout branch has called nw_connection_cancel
    destructed,             \* how many times the destructor of the object has run to its end
    nw_state,               \* the state of the nw_connection_t inside the Network framework
    cancel_called,          \* nw_connection_cancel has been called on the connection
    queue,                  \* block invocations the framework has put on m_queue, oldest first:
                            \* <<connection of a peer or NULL, state or receive outcome>>
    running,                \* where the block that m_queue is running stands ("idle": none)
    receiving,              \* a nw_connection_receive is outstanding
    cw_open,                \* the civetweb client connection thread is running
    n_close,                \* calls of handlers.m_close so far
    n_receive,              \* calls of handlers.m_receive so far
    \* ---- the owner pointer ----
    owner,                  \* owner.m_owner, the argument of create
    block_owner,            \* owner.m_owner as the blocks of the nw classes captured it
    user_data,              \* the user data civetweb was given
    m_owner,                \* cw_ws_server::m_owner
    handler_owners,         \* the owner arguments the handlers have been called with
    \* ---- the connections of the peers of a server ----
    conn_state,             \* per connection: its state in the backend
    conn_cancel,            \* per connection: nw_connection_cancel has been called on it
    conn_receiving,         \* per connection: a nw_connection_receive is outstanding
    conn_id,                \* per connection: the id connection_block holds for receive
    log,                    \* per connection: the handler calls made for it, in order
    \* ---- callers of the server ----
    sent,                   \* the last send call: its arguments and the backend sends it made
    threads,                \* per thread: the registry call it is in the middle of
    assert_failed,          \* an assert of the registry has failed
    \* ---- the native object (connection, listener or context) of the object ----
    n_retain,               \* references taken on it: by its creation and by nw_retain
    n_release               \* calls that release it: nw_release, mg_stop

regVars == <<m_map_from_connection, m_map_from_id, call, held>>

cliVars == <<object_type, pc, result, m_handle, m_mode, expired, ctor_cancelled, destructed,
             nw_state, cancel_called, queue, running, receiving, cw_open, n_close, n_receive>>

ownerVars == <<owner, block_owner, user_data, m_owner>>

resVars == <<n_retain, n_release>>

connVars == <<conn_state, conn_cancel, conn_receiving, conn_id, log>>

callerVars == <<sent, threads, assert_failed>>

auxVars == <<ownerVars, handler_owners, connVars, callerVars, resVars>>

\* cliVars without queue.
cliVarsButQueue == <<object_type, pc, result, m_handle, m_mode, expired, ctor_cancelled,
                     destructed, nw_state, cancel_called, running, receiving, cw_open,
                     n_close, n_receive>>

vars == <<regVars, cliVars, auxVars>>

(***************************************************************************)
(* The registry: pure parts.                                               *)
(***************************************************************************)

\* find(ws_connection_id id): m_map_from_id.find(id), nullptr when absent.
find_connection(map_from_id, id) ==
    IF id \in DOMAIN map_from_id THEN map_from_id[id] ELSE NULL

\* A mutant of find_id: the connection is looked up by its own value in the
\* map of the ids.
find_id_as_key(map_from_connection, connection) ==
    IF connection \in DOMAIN map_from_connection THEN connection ELSE InvalidId

\* find(const_connection_type connection): -1 when absent.
find_id(map_from_connection, connection) ==
    IF connection \in DOMAIN map_from_connection
    THEN map_from_connection[connection]
    ELSE InvalidId

\* while (find(++id)) {} : the loop of new_id, entered with the current id.
RECURSIVE probe(_, _)
probe(map_from_id, id) ==
    LET next == (id + 1) % IdModulus
    IN  IF find_connection(map_from_id, next) # NULL
        THEN probe(map_from_id, next)
        ELSE next

\* A mutant of new_id: the scan tests id 0 first
\* (for (id = 0; find(id); ++id) {}).
new_id_probe_from_zero(map_from_id) ==
    IF find_connection(map_from_id, 0) = NULL THEN 0 ELSE probe(map_from_id, 0)

\* A mutant of new_id: a counter derived from the number of connections.
new_id_from_size(map_from_id) ==
    (Cardinality(DOMAIN map_from_id) + 1) % IdModulus

\* A mutant of new_id: the scan starts after the largest id in use, so a
\* smaller id that was freed is not issued again.
new_id_after_largest(map_from_id) ==
    IF DOMAIN map_from_id = {}
    THEN probe(map_from_id, 0)
    ELSE probe(map_from_id,
               CHOOSE id \in DOMAIN map_from_id : \A other \in DOMAIN map_from_id : other <= id)

\* new_id(): ws_connection_id id = 0; while (find(++id)) {}; return id;
new_id(map_from_id) ==
    probe(map_from_id, 0)

\* size(): m_map_from_connection.size()
size ==
    Cardinality(DOMAIN m_map_from_connection)

\* m[k] = v of std::map: insert or overwrite.
map_assign(m, k, v) ==
    [x \in (DOMAIN m) \cup {k} |-> IF x = k THEN v ELSE m[x]]

\* m.erase(k) of std::map.
map_erase(m, k) ==
    [x \in (DOMAIN m) \ {k} |-> m[x]]

\* The empty std::map.
EmptyMap == [x \in {} |-> NULL]

\* The connections for_each_connection visits: the values of m_map_from_id.
RegisteredConnections == {m_map_from_id[id] : id \in DOMAIN m_map_from_id}

\* The last call that returned: the operation, its argument, the value it
\* returned, size() before it, and the id the caller held for the argument
\* before it (InvalidId: none).  No call has returned yet:
NoCall == [op |-> "none", conn |-> NULL, id |-> 0, size_before |-> 0, id_before |-> 0]

(***************************************************************************)
(* The registry: operations.                                               *)
(***************************************************************************)

\* A mutant of add_connection: the id->connection entry is written under the
\* id, the connection->id entry records the map size instead.
add_connection_wrong_id(connection) ==
    LET id == new_id(m_map_from_id)
    IN  /\ m_map_from_connection' = map_assign(m_map_from_connection, connection, size)
        /\ m_map_from_id' = map_assign(m_map_from_id, id, connection)
        /\ call' = [op |-> "add", conn |-> connection, id |-> id, size_before |-> size,
                    id_before |-> find_id(held, connection)]
        /\ held' = map_assign(held, connection, id)

\* add_connection(connection): id = new_id(); both maps written; id returned.
\* held is the caller's note of the id it was given.
add_connection(connection) ==
    LET id == new_id(m_map_from_id)
    IN  /\ m_map_from_connection' = map_assign(m_map_from_connection, connection, id)
        /\ m_map_from_id' = map_assign(m_map_from_id, id, connection)
        /\ call' = [op |-> "add", conn |-> connection, id |-> id, size_before |-> size,
                    id_before |-> find_id(held, connection)]
        /\ held' = map_assign(held, connection, id)

\* A mutant of remove_connection: the id is read after the connection entry
\* has been erased, so operator[] default-constructs it: id 0 is erased and
\* returned.
remove_connection_reads_late(connection) ==
    LET erased == map_erase(m_map_from_connection, connection)
        id == 0
    IN  /\ m_map_from_connection' = erased
        /\ m_map_from_id' = map_erase(m_map_from_id, id)
        /\ call' = [op |-> "remove", conn |-> connection, id |-> id, size_before |-> size,
                    id_before |-> find_id(held, connection)]
        /\ held' = map_erase(held, connection)

\* A mutant of remove_connection: only the id->connection entry is erased.
remove_connection_keeps_connection(connection) ==
    LET id == find_id(m_map_from_connection, connection)
    IN  /\ m_map_from_connection' = m_map_from_connection
        /\ m_map_from_id' = map_erase(m_map_from_id, id)
        /\ call' = [op |-> "remove", conn |-> connection, id |-> id, size_before |-> size,
                    id_before |-> find_id(held, connection)]
        /\ held' = map_erase(held, connection)

\* A mutant of remove_connection: only the connection->id entry is erased.
remove_connection_keeps_id(connection) ==
    LET id == find_id(m_map_from_connection, connection)
    IN  /\ m_map_from_connection' = map_erase(m_map_from_connection, connection)
        /\ m_map_from_id' = m_map_from_id
        /\ call' = [op |-> "remove", conn |-> connection, id |-> id, size_before |-> size,
                    id_before |-> find_id(held, connection)]
        /\ held' = map_erase(held, connection)

\* remove_connection(connection): id = m_map_from_connection[connection]
\* (operator[] inserts id 0 for an absent key, the erase on the next line
\* takes it out again); both entries erased; id returned.
remove_connection(connection) ==
    LET id == IF connection \in DOMAIN m_map_from_connection
              THEN m_map_from_connection[connection]
              ELSE 0
    IN  /\ m_map_from_connection' = map_erase(m_map_from_connection, connection)
        /\ m_map_from_id' = map_erase(m_map_from_id, id)
        /\ call' = [op |-> "remove", conn |-> connection, id |-> id, size_before |-> size,
                    id_before |-> find_id(held, connection)]
        /\ held' = map_erase(held, connection)

\* The backend accepts a connection whose handle is not in use: the connect
\* trampoline calls add_connection.
Connect ==
    /\ \E connection \in Connections \ DOMAIN held :
          add_connection(connection)
    /\ UNCHANGED <<cliVars, auxVars>>

\* The backend closes a connection it reported earlier: the close trampoline
\* calls remove_connection.
Close ==
    /\ \E connection \in DOMAIN held :
          remove_connection(connection)
    /\ UNCHANGED <<cliVars, auxVars>>

InitRegistry ==
    /\ m_map_from_connection = EmptyMap
    /\ m_map_from_id = EmptyMap
    /\ call = NoCall
    /\ held = EmptyMap

NextRegistry ==
    \/ Connect
    \/ Close

\* A registry that holds the connections of a set of ids, each as
\* add_connection left it: any number of the 2^IdBits - 1 ids from 1 upward,
\* where ws_connection_id is IdBits wide.
InitRegistryAnyIds ==
    /\ \E ids \in SUBSET (1 .. (IdModulus - 1)) :
          /\ m_map_from_id = [id \in ids |-> id]
          /\ m_map_from_connection = [connection \in ids |-> connection]
          /\ held = [connection \in ids |-> connection]
    /\ call = NoCall

\* The connect trampoline calls add_connection for one more connection,
\* as long as an id is left for new_id to find.
ConnectMore ==
    /\ DOMAIN m_map_from_id # Ids
    /\ \E connection \in Handles \ DOMAIN held :
          add_connection(connection)
    /\ UNCHANGED <<cliVars, auxVars>>

NextRegistryExhaust ==
    ConnectMore

(***************************************************************************)
(* connection_completion.                                                  *)
(***************************************************************************)

\* A mutant of completed: only the ready state counts as completed.
completed_only_ready(mode) == mode = "ready"

\* completed(): m_mode.load() != completion_modes::connecting
completed(mode) == mode # "connecting"

\* A mutant of wait_for_completion_returns: the deadline ends the wait with
\* and without a time_out.
wait_for_completion_deadline_always(time_out, mode, deadline_passed) ==
    completed(mode) \/ deadline_passed

\* wait_for_completion(time_out): the busy wait is left when the condition
\* of its while loop is false. With time_out != 0 the loop is
\* while (!completed() && clock::now() < exit_time), with time_out == 0 it is
\* while (!completed()).
wait_for_completion_returns(time_out, mode, deadline_passed) ==
    IF time_out # 0 THEN completed(mode) \/ deadline_passed ELSE completed(mode)

\* A mutant of closed: any state other than connecting counts as closed.
closed_when_completed(mode) == mode # "connecting"

\* closed(): m_mode.load() == completion_modes::closed
closed(mode) == mode = "closed"

\* A mutant of ready: any state other than connecting counts as ready.
ready_when_completed(mode) == mode # "connecting"

\* ready(): m_mode.load() == completion_modes::ready
ready(mode) == mode = "ready"

\* A mutant of state_block_mode: a failed connection is put back to
\* connecting (as if it were to be retried) instead of closed.
state_block_mode_retry_failed(state, mode) ==
    CASE state = "ready" -> "ready"
      [] state = "cancelled" -> "closed"
      [] state = "failed" -> "connecting"
      [] OTHER -> mode

\* The mode state_block leaves in m_mode when it handles a state:
\* completion.set(ready) for nw_connection_state_ready, completion.set(closed)
\* for cancelled and failed, no set for any other state.
state_block_mode(state, mode) ==
    CASE state = "ready" -> "ready"
      [] state \in {"cancelled", "failed"} -> "closed"
      [] OTHER -> mode

\* The mode listener_state_block of nw_ws_server leaves in m_mode:
\* completion.set(ready) for nw_listener_state_ready, completion.set(closed)
\* for cancelled and failed, no set for any other state.
listener_state_block_mode(state, mode) ==
    CASE state = "ready" -> "ready"
      [] state \in {"cancelled", "failed"} -> "closed"
      [] OTHER -> mode

(***************************************************************************)
(* The Network framework: the state of the nw_connection_t of a client or  *)
(* of the nw_listener_t of a server, and the blocks it puts on the         *)
(* object's serial queue.  A connection is preparing once started; a       *)
(* listener reports no state ("starting") until it is waiting, ready or    *)
(* failed.                                                                 *)
(***************************************************************************)

\* The connection or listener changes state: the state_changed_handler is
\* queued.
NwChangeState(state) ==
    /\ Len(queue) < MaxQueue
    /\ nw_state' = state
    /\ queue' = Append(queue, <<NULL, state>>)
    /\ UNCHANGED <<regVars, auxVars, object_type, pc, result, m_handle, m_mode, expired,
                   ctor_cancelled,
                   destructed, cancel_called, running, receiving, cw_open, n_close, n_receive>>

\* A path change: a waiting connection tries again.
NwPreparing ==
    /\ object_type = "nw_ws_client"
    /\ nw_state = "waiting"
    /\ NwChangeState("preparing")

\* No usable path to the host yet; no network for the listener.
NwWaiting ==
    /\ \/ object_type = "nw_ws_client" /\ nw_state = "preparing"
       \/ object_type = "nw_ws_server" /\ nw_state \in {"starting", "ready"}
    /\ NwChangeState("waiting")

\* The websocket handshake has completed; the listener is listening.
NwReady ==
    /\ \/ object_type = "nw_ws_client" /\ nw_state = "preparing"
       \/ object_type = "nw_ws_server" /\ nw_state \in {"starting", "waiting"}
    /\ NwChangeState("ready")

\* The connection attempt, the established connection or the listener has
\* failed.
NwFailed ==
    /\ nw_state \in {"starting", "preparing", "waiting", "ready"}
    /\ NwChangeState("failed")

\* nw_connection_cancel / nw_listener_cancel takes effect: cancelled is the
\* last state reported, also for a connection or listener that had failed.
\* Until then the framework may still report another state.
NwCancelled ==
    /\ cancel_called
    /\ nw_state \in {"starting", "preparing", "waiting", "ready", "failed"}
    /\ NwChangeState("cancelled")

\* The outstanding nw_connection_receive completes: receive_block is queued.
NwCompleteReceive(outcome) ==
    /\ receiving
    /\ Len(queue) < MaxQueue
    /\ receiving' = FALSE
    /\ queue' = Append(queue, <<NULL, outcome>>)
    /\ UNCHANGED <<regVars, auxVars, object_type, pc, result, m_handle, m_mode, expired,
                   ctor_cancelled,
                   destructed, nw_state, cancel_called, running, cw_open, n_close, n_receive>>

\* A complete message has arrived.
NwReceiveContent ==
    /\ nw_state = "ready"
    /\ n_receive < MaxReceive
    /\ NwCompleteReceive("content")

\* The receive completes without error and without a complete message.
NwReceiveNoContent ==
    /\ nw_state = "ready"
    /\ NwCompleteReceive("no_content")

\* The receive completes with an error: POSIX ENODATA, or any other.
NwReceiveError ==
    /\ nw_state \in {"ready", "failed", "cancelled"}
    /\ \E outcome \in {"error_nodata", "error_other"} :
          NwCompleteReceive(outcome)

(***************************************************************************)
(* The blocks of nw_ws_client and nw_ws_server, run one at a time by the   *)
(* serial queue.                                                           *)
(***************************************************************************)

\* m_queue takes the oldest invocation, which is a block of the object's own
\* connection or listener (NULL: not of a peer's connection) of the given kind.
Dispatch(kinds) ==
    /\ running = "idle"
    /\ queue # <<>>
    /\ Head(queue)[1] = NULL
    /\ Head(queue)[2] \in kinds
    /\ queue' = Tail(queue)

\* state_block for a state it has no branch for (preparing).
StateBlockOther ==
    /\ object_type = "nw_ws_client"
    /\ Dispatch({"preparing"})
    /\ m_mode' = state_block_mode(Head(queue)[2], m_mode)
    /\ UNCHANGED <<regVars, auxVars, object_type, pc, result, m_handle, expired, ctor_cancelled,
                   destructed, nw_state, cancel_called, running, receiving, cw_open,
                   n_close, n_receive>>

\* state_block, nw_connection_state_ready: completion.set(ready) ...
StateBlockReady ==
    /\ object_type = "nw_ws_client"
    /\ Dispatch({"ready"})
    /\ m_mode' = state_block_mode(Head(queue)[2], m_mode)
    /\ running' = "ready_receive"
    /\ UNCHANGED <<regVars, auxVars, object_type, pc, result, m_handle, expired, ctor_cancelled,
                   destructed, nw_state, cancel_called, receiving, cw_open, n_close, n_receive>>

\* ... then receive(connection, id, handlers, owner): nw_connection_receive.
StateBlockReadyReceive ==
    /\ running = "ready_receive"
    /\ receiving' = TRUE
    /\ running' = "idle"
    /\ UNCHANGED <<regVars, auxVars, object_type, pc, result, m_handle, m_mode, expired,
                   ctor_cancelled,
                   destructed, nw_state, cancel_called, queue, cw_open, n_close, n_receive>>

\* state_block, nw_connection_state_waiting: nw_connection_cancel(connection).
StateBlockWaiting ==
    /\ object_type = "nw_ws_client"
    /\ Dispatch({"waiting"})
    /\ m_mode' = state_block_mode(Head(queue)[2], m_mode)
    /\ cancel_called' = TRUE
    /\ UNCHANGED <<regVars, auxVars, object_type, pc, result, m_handle, expired, ctor_cancelled,
                   destructed, nw_state, running, receiving, cw_open, n_close, n_receive>>

\* state_block, cancelled or failed: completion.set(closed) ...
StateBlockClosed ==
    /\ object_type = "nw_ws_client"
    /\ Dispatch({"cancelled", "failed"})
    /\ m_mode' = state_block_mode(Head(queue)[2], m_mode)
    /\ running' = "closed_handler"
    /\ UNCHANGED <<regVars, auxVars, object_type, pc, result, m_handle, expired, ctor_cancelled,
                   destructed, nw_state, cancel_called, receiving, cw_open, n_close, n_receive>>

\* ... then handlers.m_close(id, owner.m_owner), owner being the block's copy
\* of the constructor's argument ...
StateBlockCloseHandler ==
    /\ running = "closed_handler"
    /\ n_close' = n_close + 1
    /\ running' = "closed_release"
    /\ handler_owners' = handler_owners \cup {block_owner}
    /\ UNCHANGED <<regVars, ownerVars, connVars, callerVars, object_type, pc, result,
                   m_handle, m_mode, expired, ctor_cancelled,
                   destructed, nw_state, cancel_called, queue, receiving, cw_open, n_receive,
                   resVars>>

\* ... then nw_release(connection) (nw_release(listener) in
\* listener_state_block), and the block returns.
StateBlockRelease ==
    /\ running = "closed_release"
    /\ running' = "idle"
    /\ n_release' = n_release + 1
    /\ UNCHANGED <<regVars, ownerVars, handler_owners, connVars, callerVars, n_retain,
                   object_type, pc, result, m_handle, m_mode, expired,
                   ctor_cancelled,
                   destructed, nw_state, cancel_called, queue, receiving, cw_open,
                   n_close, n_receive>>

\* listener_state_block for a state it has no branch for (waiting).
ListenerStateBlockOther ==
    /\ object_type = "nw_ws_server"
    /\ Dispatch({"waiting"})
    /\ m_mode' = listener_state_block_mode(Head(queue)[2], m_mode)
    /\ UNCHANGED <<regVars, auxVars, object_type, pc, result, m_handle, expired, ctor_cancelled,
                   destructed, nw_state, cancel_called, running, receiving, cw_open,
                   n_close, n_receive>>

\* listener_state_block, nw_listener_state_ready: completion.set(ready).
ListenerStateBlockReady ==
    /\ object_type = "nw_ws_server"
    /\ Dispatch({"ready"})
    /\ m_mode' = listener_state_block_mode(Head(queue)[2], m_mode)
    /\ UNCHANGED <<regVars, auxVars, object_type, pc, result, m_handle, expired, ctor_cancelled,
                   destructed, nw_state, cancel_called, running, receiving, cw_open,
                   n_close, n_receive>>

\* listener_state_block, cancelled or failed: completion.set(closed), then
\* the release of the listener (StateBlockRelease).
ListenerStateBlockClosed ==
    /\ object_type = "nw_ws_server"
    /\ Dispatch({"cancelled", "failed"})
    /\ m_mode' = listener_state_block_mode(Head(queue)[2], m_mode)
    /\ running' = "closed_release"
    /\ UNCHANGED <<regVars, auxVars, object_type, pc, result, m_handle, expired, ctor_cancelled,
                   destructed, nw_state, cancel_called, receiving, cw_open, n_close, n_receive>>

\* receive_block, no error, is_complete && content:
\* handlers.m_receive(id, buffer, size, owner) ...
ReceiveBlockContent ==
    /\ Dispatch({"content"})
    /\ n_receive' = n_receive + 1
    /\ running' = "content_receive"
    /\ handler_owners' = handler_owners \cup {block_owner}
    /\ UNCHANGED <<regVars, ownerVars, connVars, callerVars, object_type, pc, result,
                   m_handle, m_mode, expired, ctor_cancelled,
                   destructed, nw_state, cancel_called, receiving, cw_open, n_close,
                   resVars>>

\* ... then receive(connection, id, handlers, owner) again.
ReceiveBlockAgain ==
    /\ running = "content_receive"
    /\ receiving' = TRUE
    /\ running' = "idle"
    /\ UNCHANGED <<regVars, auxVars, object_type, pc, result, m_handle, m_mode, expired,
                   ctor_cancelled,
                   destructed, nw_state, cancel_called, queue, cw_open, n_close, n_receive>>

\* receive_block, no error, nothing complete: only receive(...) again.
ReceiveBlockNoContent ==
    /\ Dispatch({"no_content"})
    /\ receiving' = TRUE
    /\ UNCHANGED <<regVars, auxVars, object_type, pc, result, m_handle, m_mode, expired,
                   ctor_cancelled,
                   destructed, nw_state, cancel_called, running, cw_open, n_close, n_receive>>

\* receive_block with an error: nw_connection_cancel(connection) when the
\* error is POSIX ENODATA, nothing otherwise; no further receive.
ReceiveBlockError ==
    /\ Dispatch({"error_nodata", "error_other"})
    /\ cancel_called' = (cancel_called \/ Head(queue)[2] = "error_nodata")
    /\ UNCHANGED <<regVars, auxVars, object_type, pc, result, m_handle, m_mode, expired,
                   ctor_cancelled,
                   destructed, nw_state, running, receiving, cw_open, n_close, n_receive>>

(***************************************************************************)
(* The thread that calls create: the constructors of nw_ws_client and of  *)
(* nw_ws_server, which share everything after the start call.              *)
(***************************************************************************)

\* create: new T(args...), T = nw_ws_client.  The constructor creates and
\* retains the connection, sets queue and state_changed_handler and calls
\* nw_connection_start; then it enters wait_for_completion(400).
NwConstruct ==
    /\ pc = "new"
    /\ object_type = "nw_ws_client"
    /\ nw_state = "setup"
    /\ nw_state' = "preparing"
    /\ queue' = Append(queue, <<NULL, "preparing">>)
    /\ pc' = "wait_timed"
    /\ block_owner' = owner
    /\ n_retain' = 2
    /\ UNCHANGED <<regVars, owner, user_data, m_owner, handler_owners, connVars, callerVars,
                   object_type, result, m_handle, m_mode, expired, ctor_cancelled,
                   destructed, cancel_called, running, receiving, cw_open, n_close,
                   n_receive, n_release>>

\* create: new T(args...), T = nw_ws_server.  The constructor creates and
\* retains the listener, sets queue, state_changed_handler and
\* new_connection_handler and calls nw_listener_start; then it enters
\* wait_for_completion(400).
ListenerConstruct ==
    /\ pc = "new"
    /\ object_type = "nw_ws_server"
    /\ nw_state = "setup"
    /\ nw_state' = "starting"
    /\ pc' = "wait_timed"
    /\ block_owner' = owner
    /\ n_retain' = 2
    /\ UNCHANGED <<regVars, owner, user_data, m_owner, handler_owners, connVars, callerVars,
                   object_type, result, m_handle, m_mode, expired, ctor_cancelled,
                   destructed, cancel_called, queue, running, receiving, cw_open, n_close,
                   n_receive, n_release>>

\* The steady clock reaches exit_time while the timed wait is spinning.
Timeout ==
    /\ pc = "wait_timed"
    /\ ~expired
    /\ expired' = TRUE
    /\ UNCHANGED <<regVars, auxVars, object_type, pc, result, m_handle, m_mode, ctor_cancelled,
                   destructed, nw_state, cancel_called, queue, running, receiving, cw_open,
                   n_close, n_receive>>

\* wait_for_completion(time_out), time_out != 0:
\* while (!completed() && clock::now() < exit_time) {}
WaitTimedReturn ==
    /\ pc = "wait_timed"
    /\ wait_for_completion_returns(nw_ws_connection_timeout_ms, m_mode, expired)
    /\ pc' = "check_completed"
    /\ UNCHANGED <<regVars, auxVars, object_type, result, m_handle, m_mode, expired,
                   ctor_cancelled,
                   destructed, nw_state, cancel_called, queue, running, receiving, cw_open,
                   n_close, n_receive>>

\* if (!completion.completed()) : the timeout branch is taken or skipped.
CtorCheckCompleted ==
    /\ pc = "check_completed"
    /\ pc' = IF ~completed(m_mode) THEN "cancel" ELSE "store"
    /\ UNCHANGED <<regVars, auxVars, object_type, result, m_handle, m_mode, expired,
                   ctor_cancelled,
                   destructed, nw_state, cancel_called, queue, running, receiving, cw_open,
                   n_close, n_receive>>

\* nw_connection_cancel(connection) / nw_listener_cancel(listener) of the
\* timeout branch.
CtorCancel ==
    /\ pc = "cancel"
    /\ cancel_called' = TRUE
    /\ ctor_cancelled' = TRUE
    /\ pc' = "wait_untimed"
    /\ UNCHANGED <<regVars, auxVars, object_type, result, m_handle, m_mode, expired, destructed,
                   nw_state, queue, running, receiving, cw_open, n_close, n_receive>>

\* wait_for_completion(), time_out == 0: while (!completed()) {}
WaitUntimedReturn ==
    /\ pc = "wait_untimed"
    /\ wait_for_completion_returns(0, m_mode, expired)
    /\ pc' = "store"
    /\ UNCHANGED <<regVars, auxVars, object_type, result, m_handle, m_mode, expired,
                   ctor_cancelled,
                   destructed, nw_state, cancel_called, queue, running, receiving, cw_open,
                   n_close, n_receive>>

\* if (completion.ready()) m_handle = connection; else nw_release(connection);
\* (the listener in nw_ws_server); the constructor returns.
CtorStore ==
    /\ pc = "store"
    /\ m_handle' = IF ready(m_mode) THEN 1 ELSE NULL
    /\ pc' = "constructed"
    /\ n_release' = IF ~ready(m_mode) THEN n_release + 1 ELSE n_release
    /\ UNCHANGED <<regVars, ownerVars, handler_owners, connVars, callerVars, n_retain,
                   object_type, result, m_mode, expired, ctor_cancelled,
                   destructed,
                   nw_state, cancel_called, queue, running, receiving, cw_open, n_close,
                   n_receive>>

(***************************************************************************)
(* The constructors of cw_ws_client and cw_ws_server, and the callbacks of *)
(* cw_ws_client.                                                           *)
(***************************************************************************)

\* create: new T(args...), T = cw_ws_client.  The constructor stores what
\* mg_connect_websocket_client returns: null, or a connection whose thread
\* calls the data and close callbacks.
CwConstruct ==
    /\ pc = "new"
    /\ object_type = "cw_ws_client"
    /\ \E handle \in {NULL, 1} :
          /\ m_handle' = handle
          /\ n_retain' = IF handle # NULL THEN 1 ELSE 0
          /\ cw_open' = (handle # NULL)
          /\ user_data' = IF handle # NULL THEN owner ELSE user_data
    /\ pc' = "constructed"
    /\ UNCHANGED <<regVars, owner, block_owner, m_owner, handler_owners, connVars,
                   callerVars, object_type, result, m_mode, expired, ctor_cancelled, destructed,
                   nw_state, cancel_called, queue, running, receiving, n_close, n_receive,
                   n_release>>

\* create: new T(args...), T = cw_ws_server.  The constructor stores what
\* mg_start2 returns: null, or a context, for which it sets the websocket
\* handler.
CwServerConstruct ==
    /\ pc = "new"
    /\ object_type = "cw_ws_server"
    /\ \E handle \in {NULL, 1} :
          /\ m_handle' = handle
          /\ n_retain' = IF handle # NULL THEN 1 ELSE 0
          /\ user_data' = IF handle # NULL THEN owner ELSE user_data
    /\ m_owner' = owner
    /\ pc' = "constructed"
    /\ UNCHANGED <<regVars, owner, block_owner, handler_owners, connVars, callerVars,
                   object_type, result, m_mode, expired, ctor_cancelled, destructed,
                   nw_state, cancel_called, queue, running, receiving, cw_open, n_close,
                   n_receive, n_release>>

\* cw_handlers::data: handlers.m_receive(id, buffer, size, x); x is the user
\* data the connection was created with.
CwData ==
    /\ cw_open
    /\ n_receive < MaxReceive
    /\ n_receive' = n_receive + 1
    /\ handler_owners' = handler_owners \cup {user_data}
    /\ UNCHANGED <<regVars, ownerVars, connVars, callerVars, object_type, pc, result,
                   m_handle, m_mode, expired, ctor_cancelled,
                   destructed, nw_state, cancel_called, queue, running, receiving, cw_open,
                   n_close, resVars>>

\* cw_handlers::close: handlers.m_close(id, x); the connection thread ends.
CwClose ==
    /\ cw_open
    /\ n_close' = n_close + 1
    /\ cw_open' = FALSE
    /\ handler_owners' = handler_owners \cup {user_data}
    /\ UNCHANGED <<regVars, ownerVars, connVars, callerVars, object_type, pc, result,
                   m_handle, m_mode, expired, ctor_cancelled,
                   destructed, nw_state, cancel_called, queue, running, receiving, n_receive,
                   resVars>>

(***************************************************************************)
(* ws_base::create after the constructor, and the destructors.             *)
(***************************************************************************)

\* A mutant of create_validate: a null handle returns nullptr at once, the
\* object is not deleted.
create_validate_no_delete ==
    /\ pc = "constructed"
    /\ IF m_handle = NULL
       THEN /\ result' = "null"
            /\ pc' = "done"
       ELSE /\ result' = "object"
            /\ pc' = "live"
    /\ UNCHANGED <<regVars, auxVars, object_type, m_handle, m_mode, expired, ctor_cancelled,
                   destructed,
                   nw_state, cancel_called, queue, running, receiving, cw_open, n_close,
                   n_receive>>

\* create: if (!object->m_handle) { delete object; return nullptr; }
\* return object;  With a null handle the destructor is entered; create
\* returns nullptr when it has run.
create_validate ==
    /\ pc = "constructed"
    /\ IF m_handle = NULL
       THEN /\ result' = result
            /\ pc' = "destructor"
       ELSE /\ result' = "object"
            /\ pc' = "live"
    /\ UNCHANGED <<regVars, auxVars, object_type, m_handle, m_mode, expired, ctor_cancelled,
                   destructed,
                   nw_state, cancel_called, queue, running, receiving, cw_open, n_close,
                   n_receive>>

\* The owner of a live object deletes it.
Delete ==
    /\ pc = "live"
    /\ pc' = "destructor"
    /\ UNCHANGED <<regVars, auxVars, object_type, result, m_handle, m_mode, expired,
                   ctor_cancelled,
                   destructed, nw_state, cancel_called, queue, running, receiving, cw_open,
                   n_close, n_receive>>

\* The destructor has run: delete is over, and create, when it was create
\* that deleted, returns nullptr.
DestructorEnd ==
    /\ destructed' = destructed + 1
    /\ result' = IF result = "pending" THEN "null" ELSE result
    /\ pc' = "done"

\* ~nw_ws_client: if (m_completion.ready()) nw_connection_cancel(m_handle);
\* nw_release(m_handle);
NwDestructorCancel ==
    /\ pc = "destructor"
    /\ object_type = "nw_ws_client"
    /\ cancel_called' = (cancel_called \/ ready(m_mode))
    /\ pc' = "wait_closed"
    /\ n_release' = IF m_handle # NULL THEN n_release + 1 ELSE n_release
    /\ UNCHANGED <<regVars, ownerVars, handler_owners, connVars, callerVars, n_retain,
                   object_type, result, m_handle, m_mode, expired, ctor_cancelled,
                   destructed, nw_state, queue, running, receiving, cw_open, n_close,
                   n_receive>>

\* ~nw_ws_server: for_each_connection(nw_connection_cancel), over the
\* connections in m_map_from_id; if (m_completion.ready())
\* nw_listener_cancel(m_handle); nw_release(m_handle);
ListenerDestructorCancel ==
    /\ pc = "destructor"
    /\ object_type = "nw_ws_server"
    /\ conn_cancel' = [connection \in Peers |->
                          conn_cancel[connection] \/ connection \in RegisteredConnections]
    /\ cancel_called' = (cancel_called \/ ready(m_mode))
    /\ pc' = "wait_closed"
    /\ n_release' = IF m_handle # NULL THEN n_release + 1 ELSE n_release
    /\ UNCHANGED <<regVars, ownerVars, handler_owners, conn_state, conn_receiving, conn_id,
                   log, callerVars, object_type, result, m_handle, m_mode, expired, ctor_cancelled,
                   destructed, nw_state, queue, running, receiving, cw_open, n_close,
                   n_receive, n_retain>>

\* ~nw_ws_client, ~nw_ws_server: m_completion.wait_for_closed():
\* while (!closed()) {} and the destructor returns.
NwDestructorWaitReturn ==
    /\ pc = "wait_closed"
    /\ closed(m_mode)
    /\ DestructorEnd
    /\ UNCHANGED <<regVars, auxVars, object_type, m_handle, m_mode, expired, ctor_cancelled,
                   nw_state,
                   cancel_called, queue, running, receiving, cw_open, n_close, n_receive>>

\* ~cw_ws_client: its body is empty.
CwDestructor ==
    /\ pc = "destructor"
    /\ object_type = "cw_ws_client"
    /\ DestructorEnd
    /\ UNCHANGED <<regVars, auxVars, object_type, m_handle, m_mode, expired, ctor_cancelled,
                   nw_state,
                   cancel_called, queue, running, receiving, cw_open, n_close, n_receive>>

\* ~cw_ws_server: mg_stop(m_handle), which returns when the worker threads
\* have ended, each open connection closed by its thread.
CwServerDestructor ==
    /\ pc = "destructor"
    /\ object_type = "cw_ws_server"
    /\ \A connection \in Peers : conn_state[connection] \in {"none", "closed"}
    /\ DestructorEnd
    /\ n_release' = IF m_handle # NULL THEN n_release + 1 ELSE n_release
    /\ UNCHANGED <<regVars, ownerVars, handler_owners, connVars, callerVars, n_retain,
                   object_type, m_handle, m_mode, expired, ctor_cancelled,
                   nw_state,
                   cancel_called, queue, running, receiving, cw_open, n_close, n_receive>>

\* The classes ws_base::create is instantiated for.
ObjectTypes == {"nw_ws_client", "nw_ws_server", "cw_ws_client", "cw_ws_server"}

\* Before create: no object; m_handle = nullptr and m_mode = connecting are
\* the member initialisers the constructor starts from.
InitClient ==
    /\ object_type \in ObjectTypes
    /\ pc = "new"
    /\ result = "pending"
    /\ m_handle = NULL
    /\ m_mode = "connecting"
    /\ expired = FALSE
    /\ ctor_cancelled = FALSE
    /\ destructed = 0
    /\ nw_state = "setup"
    /\ cancel_called = FALSE
    /\ queue = <<>>
    /\ running = "idle"
    /\ receiving = FALSE
    /\ cw_open = FALSE
    /\ n_close = 0
    /\ n_receive = 0

NextClient ==
    \/ NwConstruct
    \/ ListenerConstruct
    \/ Timeout
    \/ WaitTimedReturn
    \/ CtorCheckCompleted
    \/ CtorCancel
    \/ WaitUntimedReturn
    \/ CtorStore
    \/ CwConstruct
    \/ CwServerConstruct
    \/ CwData
    \/ CwClose
    \/ create_validate
    \/ Delete
    \/ NwDestructorCancel
    \/ ListenerDestructorCancel
    \/ NwDestructorWaitReturn
    \/ CwDestructor
    \/ CwServerDestructor
    \/ NwPreparing
    \/ NwWaiting
    \/ NwReady
    \/ NwFailed
    \/ NwCancelled
    \/ NwReceiveContent
    \/ NwReceiveNoContent
    \/ NwReceiveError
    \/ StateBlockOther
    \/ StateBlockReady
    \/ StateBlockReadyReceive
    \/ StateBlockWaiting
    \/ StateBlockClosed
    \/ StateBlockCloseHandler
    \/ StateBlockRelease
    \/ ListenerStateBlockOther
    \/ ListenerStateBlockReady
    \/ ListenerStateBlockClosed
    \/ ReceiveBlockContent
    \/ ReceiveBlockAgain
    \/ ReceiveBlockNoContent
    \/ ReceiveBlockError

(***************************************************************************)
(* The peers of a server.  Every handler call made for a connection is     *)
(* logged with the id it passes, whether the trampoline found the          *)
(* connection registered, and what find(id) returns while the handler      *)
(* runs.  A trampoline or block runs as one step.  The object is gone once *)
(* its destructor has returned: a block that runs then works on freed      *)
(* memory, and the model does not follow it.                               *)
(***************************************************************************)

\* A handler call: m_connect, m_ready, m_receive or m_close with this id.
HandlerCall(h, id, registered, map_from_id) ==
    [h |-> h, id |-> id, registered |-> registered,
     found |-> find_connection(map_from_id, id)]

\* The log with one more handler call for the connection.
Logged(connection, entry) ==
    [log EXCEPT ![connection] = Append(@, entry)]

\* The handler calls of one kind made for the connection so far.
Calls(connection, h) ==
    {i \in 1 .. Len(log[connection]) : log[connection][i].h = h}

\* A mutant of get_owner: the server object is handed on as the owner.
get_owner_returns_server(data, server_owner) == "server"

\* cw_handlers::get_owner(connection, x): request_info->user_data
get_owner(data, server_owner) == data

\* assert(as_server(untyped_local_server)->m_owner == owner) of get_owner.
get_owner_assert(data, server_owner) == server_owner = data

(***************************************************************************)
(* cw_ws_server: civetweb runs the callbacks of one connection on that     *)
(* connection's worker thread, connect, ready, data and close in this      *)
(* order; the threads of different connections run concurrently.           *)
(***************************************************************************)

\* cw_handlers::connect: id = add_connection(connection);
\* handlers.m_connect(id, get_owner(connection, x)); return 0;
CwServerConnect ==
    /\ object_type = "cw_ws_server"
    /\ pc \in {"constructed", "live"}
    /\ m_handle # NULL
    /\ \E connection \in Peers :
          /\ conn_state[connection] = "none"
          /\ add_connection(connection)
          /\ log' = Logged(connection, HandlerCall("connect", call'.id, TRUE, m_map_from_id'))
          /\ conn_state' = [conn_state EXCEPT ![connection] = "connected"]
    /\ handler_owners' = handler_owners \cup {get_owner(user_data, m_owner)}
    /\ assert_failed' = (assert_failed \/ ~get_owner_assert(user_data, m_owner))
    /\ UNCHANGED <<cliVars, ownerVars, conn_cancel, conn_receiving, conn_id,
                   sent, threads, resVars>>

\* cw_handlers::ready: id = find(connection);
\* handlers.m_ready(id, get_owner(connection, x));
CwServerReady ==
    /\ object_type = "cw_ws_server"
    /\ \E connection \in Peers :
          /\ conn_state[connection] = "connected"
          /\ log' = Logged(connection,
                           HandlerCall("ready", find_id(m_map_from_connection, connection),
                                       connection \in DOMAIN m_map_from_connection,
                                       m_map_from_id))
          /\ conn_state' = [conn_state EXCEPT ![connection] = "ready"]
    /\ handler_owners' = handler_owners \cup {get_owner(user_data, m_owner)}
    /\ assert_failed' = (assert_failed \/ ~get_owner_assert(user_data, m_owner))
    /\ UNCHANGED <<regVars, cliVars, ownerVars, conn_cancel, conn_receiving, conn_id,
                   sent, threads, resVars>>

\* cw_handlers::receive: id = find(connection);
\* handlers.m_receive(id, buffer, size, get_owner(connection, x)); return 1;
CwServerReceive ==
    /\ object_type = "cw_ws_server"
    /\ \E connection \in Peers :
          /\ conn_state[connection] = "ready"
          /\ Cardinality(Calls(connection, "receive")) < MaxPeerReceive
          /\ log' = Logged(connection,
                           HandlerCall("receive", find_id(m_map_from_connection, connection),
                                       connection \in DOMAIN m_map_from_connection,
                                       m_map_from_id))
    /\ handler_owners' = handler_owners \cup {get_owner(user_data, m_owner)}
    /\ assert_failed' = (assert_failed \/ ~get_owner_assert(user_data, m_owner))
    /\ UNCHANGED <<regVars, cliVars, ownerVars, conn_state, conn_cancel, conn_receiving,
                   conn_id, sent, threads, resVars>>

\* cw_handlers::close: id = remove_connection(connection);
\* handlers.m_close(id, get_owner(connection, x));
CwServerClose ==
    /\ object_type = "cw_ws_server"
    /\ \E connection \in Peers :
          /\ conn_state[connection] = "ready"
          /\ remove_connection(connection)
          /\ log' = Logged(connection,
                           HandlerCall("close", call'.id,
                                       connection \in DOMAIN m_map_from_connection,
                                       m_map_from_id'))
          /\ conn_state' = [conn_state EXCEPT ![connection] = "closed"]
    /\ handler_owners' = handler_owners \cup {get_owner(user_data, m_owner)}
    /\ assert_failed' = (assert_failed \/ ~get_owner_assert(user_data, m_owner))
    /\ UNCHANGED <<cliVars, ownerVars, conn_cancel, conn_receiving, conn_id,
                   sent, threads, resVars>>

(***************************************************************************)
(* nw_ws_server: the Network framework hands a new connection to           *)
(* connection_block and reports the connection's states to                 *)
(* client_state_block; all blocks of the server and of its connections run *)
(* on the one serial queue m_queue.                                        *)
(***************************************************************************)

\* The listener, while it is ready, accepts a peer: connection_block is
\* queued.
NwNewConnection ==
    /\ object_type = "nw_ws_server"
    /\ nw_state = "ready"
    /\ Len(queue) < MaxQueue
    /\ \E connection \in Peers :
          /\ conn_state[connection] = "none"
          /\ conn_state' = [conn_state EXCEPT ![connection] = "accepted"]
          /\ queue' = Append(queue, <<connection, "new_connection">>)
    /\ UNCHANGED <<regVars, cliVarsButQueue, ownerVars, handler_owners, conn_cancel,
                   conn_receiving,
                   conn_id, log, callerVars, resVars>>

\* A started connection changes state: client_state_block is queued.
NwConnChangeState(connection, state) ==
    /\ Len(queue) < MaxQueue
    /\ conn_state' = [conn_state EXCEPT ![connection] = state]
    /\ queue' = Append(queue, <<connection, state>>)
    /\ UNCHANGED <<regVars, cliVarsButQueue, ownerVars, handler_owners, conn_cancel,
                   conn_receiving,
                   conn_id, log, callerVars, resVars>>

\* The connection has no usable path.
NwConnWaiting ==
    \E connection \in Peers :
        /\ conn_state[connection] = "preparing"
        /\ NwConnChangeState(connection, "waiting")

\* The websocket handshake with the peer has completed.
NwConnReady ==
    \E connection \in Peers :
        /\ conn_state[connection] = "preparing"
        /\ NwConnChangeState(connection, "ready")

\* The handshake or the established connection has failed.
NwConnFailed ==
    \E connection \in Peers :
        /\ conn_state[connection] \in {"preparing", "waiting", "ready"}
        /\ NwConnChangeState(connection, "failed")

\* nw_connection_cancel takes effect: cancelled is the last state reported,
\* also for a connection that had failed.
NwConnCancelled ==
    \E connection \in Peers :
        /\ conn_cancel[connection]
        /\ conn_state[connection] \in {"preparing", "waiting", "ready", "failed"}
        /\ NwConnChangeState(connection, "cancelled")

\* The outstanding nw_connection_receive of a connection completes:
\* receive_block is queued.
NwConnCompleteReceive(connection, outcome) ==
    /\ conn_receiving[connection]
    /\ Len(queue) < MaxQueue
    /\ conn_receiving' = [conn_receiving EXCEPT ![connection] = FALSE]
    /\ queue' = Append(queue, <<connection, outcome>>)
    /\ UNCHANGED <<regVars, cliVarsButQueue, ownerVars, handler_owners, conn_state, conn_cancel,
                   conn_id, log, callerVars, resVars>>

\* A complete message of the peer has arrived.
NwConnReceiveContent ==
    \E connection \in Peers :
        /\ conn_state[connection] = "ready"
        /\ Cardinality(Calls(connection, "receive")) < MaxPeerReceive
        /\ NwConnCompleteReceive(connection, "content")

\* The receive completes without error and without a complete message.
NwConnReceiveNoContent ==
    \E connection \in Peers :
        /\ conn_state[connection] = "ready"
        /\ NwConnCompleteReceive(connection, "no_content")

\* The receive completes with an error: POSIX ENODATA, or any other.
NwConnReceiveError ==
    \E connection \in Peers :
        /\ conn_state[connection] \in {"ready", "failed", "cancelled"}
        /\ \E outcome \in {"error_nodata", "error_other"} :
              NwConnCompleteReceive(connection, outcome)

\* m_queue is free and its oldest invocation is a block of this connection
\* of one of the given kinds; the server object exists.
ConnBlockNext(connection, kinds) ==
    /\ object_type = "nw_ws_server"
    /\ pc # "done"
    /\ running = "idle"
    /\ queue # <<>>
    /\ Head(queue)[1] = connection
    /\ Head(queue)[2] \in kinds

\* connection_block: id = add_connection(connection);
\* handlers.m_connect(id, owner.m_owner); nw_retain(connection); queue and
\* state handler set; nw_connection_start(connection), on which the
\* connection reports preparing; receive(connection, id, handlers, owner).
ConnectionBlock ==
    \E connection \in Peers :
        /\ ConnBlockNext(connection, {"new_connection"})
        /\ add_connection(connection)
        /\ log' = Logged(connection, HandlerCall("connect", call'.id, TRUE, m_map_from_id'))
        /\ handler_owners' = handler_owners \cup {block_owner}
        /\ conn_id' = [conn_id EXCEPT ![connection] = call'.id]
        /\ conn_state' = [conn_state EXCEPT ![connection] = "preparing"]
        /\ queue' = Append(Tail(queue), <<connection, "preparing">>)
        /\ conn_receiving' = [conn_receiving EXCEPT ![connection] = TRUE]
        /\ UNCHANGED <<cliVarsButQueue, ownerVars, conn_cancel, callerVars, resVars>>

\* client_state_block for a state it has no branch for (preparing).
ClientStateBlockOther ==
    \E connection \in Peers :
        /\ ConnBlockNext(connection, {"preparing"})
        /\ queue' = Tail(queue)
        /\ UNCHANGED <<regVars, cliVarsButQueue, ownerVars, handler_owners, conn_state,
                       conn_cancel,
                       conn_receiving, conn_id, log, callerVars, resVars>>

\* client_state_block, nw_connection_state_ready:
\* handlers.m_ready(find(connection), owner.m_owner)
ClientStateBlockReady ==
    \E connection \in Peers :
        /\ ConnBlockNext(connection, {"ready"})
        /\ queue' = Tail(queue)
        /\ log' = Logged(connection,
                         HandlerCall("ready", find_id(m_map_from_connection, connection),
                                     connection \in DOMAIN m_map_from_connection,
                                     m_map_from_id))
        /\ handler_owners' = handler_owners \cup {block_owner}
        /\ UNCHANGED <<regVars, cliVarsButQueue, ownerVars, conn_state, conn_cancel,
                       conn_receiving,
                       conn_id, callerVars, resVars>>

\* client_state_block, nw_connection_state_waiting:
\* nw_connection_cancel(connection)
ClientStateBlockWaiting ==
    \E connection \in Peers :
        /\ ConnBlockNext(connection, {"waiting"})
        /\ queue' = Tail(queue)
        /\ conn_cancel' = [conn_cancel EXCEPT ![connection] = TRUE]
        /\ UNCHANGED <<regVars, cliVarsButQueue, ownerVars, handler_owners, conn_state,
                       conn_receiving, conn_id, log, callerVars, resVars>>

\* client_state_block, cancelled or failed:
\* id = remove_connection(connection); handlers.m_close(id, owner.m_owner);
\* nw_release(connection)
ClientStateBlockClosed ==
    \E connection \in Peers :
        /\ ConnBlockNext(connection, {"cancelled", "failed"})
        /\ queue' = Tail(queue)
        /\ remove_connection(connection)
        /\ log' = Logged(connection,
                         HandlerCall("close", call'.id,
                                     connection \in DOMAIN m_map_from_connection,
                                     m_map_from_id'))
        /\ handler_owners' = handler_owners \cup {block_owner}
        /\ UNCHANGED <<cliVarsButQueue, ownerVars, conn_state, conn_cancel, conn_receiving,
                       conn_id,
                       callerVars, resVars>>

\* receive_block of a server connection, no error, is_complete && content:
\* handlers.m_receive(id, buffer, size, owner) with the id connection_block
\* passed to receive; then receive(connection, id, handlers, owner) again.
ConnReceiveBlockContent ==
    \E connection \in Peers :
        /\ ConnBlockNext(connection, {"content"})
        /\ queue' = Tail(queue)
        /\ log' = Logged(connection,
                         HandlerCall("receive", conn_id[connection],
                                     connection \in DOMAIN m_map_from_connection,
                                     m_map_from_id))
        /\ handler_owners' = handler_owners \cup {block_owner}
        /\ conn_receiving' = [conn_receiving EXCEPT ![connection] = TRUE]
        /\ UNCHANGED <<regVars, cliVarsButQueue, ownerVars, conn_state, conn_cancel, conn_id,
                       callerVars, resVars>>

\* receive_block of a server connection, no error, nothing complete: only
\* receive(...) again.
ConnReceiveBlockNoContent ==
    \E connection \in Peers :
        /\ ConnBlockNext(connection, {"no_content"})
        /\ queue' = Tail(queue)
        /\ conn_receiving' = [conn_receiving EXCEPT ![connection] = TRUE]
        /\ UNCHANGED <<regVars, cliVarsButQueue, ownerVars, handler_owners, conn_state,
                       conn_cancel,
                       conn_id, log, callerVars, resVars>>

\* receive_block of a server connection with an error:
\* nw_connection_cancel(connection) when the error is POSIX ENODATA.
ConnReceiveBlockError ==
    \E connection \in Peers :
        /\ ConnBlockNext(connection, {"error_nodata", "error_other"})
        /\ queue' = Tail(queue)
        /\ conn_cancel' = [conn_cancel EXCEPT ![connection] =
                              @ \/ Head(queue)[2] = "error_nodata"]
        /\ UNCHANGED <<regVars, cliVarsButQueue, ownerVars, handler_owners, conn_state,
                       conn_receiving, conn_id, log, callerVars, resVars>>

\* What the peers of a server and the blocks of their connections do.
NextPeers ==
    \/ CwServerConnect
    \/ CwServerReady
    \/ CwServerReceive
    \/ CwServerClose
    \/ NwNewConnection
    \/ NwConnWaiting
    \/ NwConnReady
    \/ NwConnFailed
    \/ NwConnCancelled
    \/ NwConnReceiveContent
    \/ NwConnReceiveNoContent
    \/ NwConnReceiveError
    \/ ConnectionBlock
    \/ ClientStateBlockOther
    \/ ClientStateBlockReady
    \/ ClientStateBlockWaiting
    \/ ClientStateBlockClosed
    \/ ConnReceiveBlockContent
    \/ ConnReceiveBlockNoContent
    \/ ConnReceiveBlockError

\* A live server with its peers, until it is deleted.  The listener stays
\* ready until it fails or is cancelled.
NextServer ==
    \/ NextPeers
    \/ Delete
    \/ ListenerDestructorCancel
    \/ NwDestructorWaitReturn
    \/ CwServerDestructor
    \/ NwFailed
    \/ NwCancelled
    \/ ListenerStateBlockClosed
    \/ StateBlockRelease

(***************************************************************************)
(* send of nw_ws_server and cw_ws_server, called by the owner of a live    *)
(* server.                                                                 *)
(***************************************************************************)

\* The messages a caller sends.
Data == {"ping", "pong"}

\* No send call has been made yet.
NoSend == [kind |-> "none", id |-> 0, data |-> "", live |-> {}, holder |-> NULL,
           writes |-> <<>>]

\* nw_ws_common::send(connection, data, size): one nw_connection_send of the
\* data as a complete binary message.
nw_send(connection, data) ==
    [to |-> connection, opcode |-> "binary", data |-> data]

\* mg_websocket_write(connection, MG_WEBSOCKET_OPCODE_BINARY, data, size)
mg_websocket_write(connection, data) ==
    [to |-> connection, opcode |-> "binary", data |-> data]

\* The smallest id of a non-empty set: where the iteration of a std::map starts.
first_id(ids) == CHOOSE id \in ids : \A other \in ids : id <= other

\* for (it = m_map_from_id.begin(); it != m_map_from_id.end(); it++): the
\* connections of the given ids in ascending order of id.
RECURSIVE connections_in_order(_, _)
connections_in_order(map_from_id, ids) ==
    IF ids = {}
    THEN <<>>
    ELSE <<map_from_id[first_id(ids)]>>
             \o connections_in_order(map_from_id, ids \ {first_id(ids)})

\* A mutant of send_all_targets: the iteration starts at the second entry.
send_all_targets_skip_first(map_from_id) ==
    IF DOMAIN map_from_id = {}
    THEN <<>>
    ELSE connections_in_order(map_from_id,
                              (DOMAIN map_from_id) \ {first_id(DOMAIN map_from_id)})

\* The connections send(data, size) sends to: it->second of every entry.
send_all_targets(map_from_id) ==
    connections_in_order(map_from_id, DOMAIN map_from_id)

\* A mutant of send_target: an id that is not found falls back to the first
\* connection.
send_target_or_first(map_from_id, id) ==
    IF id \in DOMAIN map_from_id \/ DOMAIN map_from_id = {}
    THEN find_connection(map_from_id, id)
    ELSE map_from_id[first_id(DOMAIN map_from_id)]

\* The connection send(id, data, size) sends to: find(id).
send_target(map_from_id, id) ==
    find_connection(map_from_id, id)

\* The record of a send call: its arguments, the connections the caller
\* holds an id for, the one of them that holds the id passed (NULL: none),
\* and the backend sends made.
SendRecord(kind, id, data, writes) ==
    [kind |-> kind, id |-> id, data |-> data, live |-> DOMAIN held,
     holder |-> IF \E c \in DOMAIN held : held[c] = id
                THEN CHOOSE c \in DOMAIN held : held[c] = id
                ELSE NULL,
     writes |-> writes]

\* A live server, whose send is called.
LiveServer(type) ==
    /\ object_type = type
    /\ pc = "live"

\* nw_ws_server::send(id, data, size): nw_ws_common::send(find(id), data, size)
NwServerSend ==
    /\ LiveServer("nw_ws_server")
    /\ \E id \in Ids, data \in Data :
          sent' = SendRecord("one", id, data,
                             <<nw_send(send_target(m_map_from_id, id), data)>>)
    /\ UNCHANGED <<regVars, cliVars, ownerVars, handler_owners, connVars, threads,
                   assert_failed, resVars>>

\* nw_ws_server::send(data, size): nw_ws_common::send(it->second, data, size)
\* for every entry of m_map_from_id.
NwServerSendAll ==
    /\ LiveServer("nw_ws_server")
    /\ \E data \in Data :
          sent' = SendRecord("all", 0, data,
                             [i \in 1 .. Len(send_all_targets(m_map_from_id)) |->
                                 nw_send(send_all_targets(m_map_from_id)[i], data)])
    /\ UNCHANGED <<regVars, cliVars, ownerVars, handler_owners, connVars, threads,
                   assert_failed, resVars>>

\* cw_ws_server::send(id, data, size): mg_websocket_write(find(id), ...)
CwServerSend ==
    /\ LiveServer("cw_ws_server")
    /\ \E id \in Ids, data \in Data :
          sent' = SendRecord("one", id, data,
                             <<mg_websocket_write(send_target(m_map_from_id, id), data)>>)
    /\ UNCHANGED <<regVars, cliVars, ownerVars, handler_owners, connVars, threads,
                   assert_failed, resVars>>

\* cw_ws_server::send(data, size): mg_websocket_write(it->second, ...) for
\* every entry of m_map_from_id.
CwServerSendAll ==
    /\ LiveServer("cw_ws_server")
    /\ \E data \in Data :
          sent' = SendRecord("all", 0, data,
                             [i \in 1 .. Len(send_all_targets(m_map_from_id)) |->
                                 mg_websocket_write(send_all_targets(m_map_from_id)[i], data)])
    /\ UNCHANGED <<regVars, cliVars, ownerVars, handler_owners, connVars, threads,
                   assert_failed, resVars>>

\* The registry of a live server under callers that keep its contract, and
\* the server's send.
NextSend ==
    \/ Connect
    \/ Close
    \/ NwServerSend
    \/ NwServerSendAll
    \/ CwServerSend
    \/ CwServerSendAll
(***************************************************************************)
(* send of the clients, and what the backend reports for a send.           *)
(***************************************************************************)

\* What the backend reports for one send: mg_websocket_client_write returns
\* the number of bytes written (size, fewer, or a value <= 0 on error);
\* nw_connection_send hands an error, or none, to send_complete_block.
WriteResults == {"all_bytes", "fewer_bytes", "error"}

\* A mutant of send_once: the write is made again when the backend did not
\* report all the bytes written.
send_again_on_failure(write, write_result) ==
    IF write_result = "all_bytes" THEN <<write>> ELSE <<write, write>>

\* The backend sends of a send call for one connection, given what the
\* backend reports for the first: in cw_ws_client::send the branch
\* if (bytes != size) is empty, in nw_ws_common::send the completion block
\* only releases the context.
send_once(write, write_result) == <<write>>

\* The record of a send call of a client: data, backend sends made to
\* m_handle, and what the backend reported.
ClientSendRecord(data, writes, write_result) ==
    [kind |-> "client", id |-> 0, data |-> data, live |-> {}, holder |-> m_handle,
     writes |-> writes, result |-> write_result]

\* nw_ws_client::send(data, size): nw_ws_common::send(m_handle, data, size)
NwClientSend ==
    /\ object_type = "nw_ws_client"
    /\ pc = "live"
    /\ \E data \in Data, write_result \in WriteResults :
          sent' = ClientSendRecord(data, send_once(nw_send(m_handle, data), write_result),
                                   write_result)
    /\ UNCHANGED <<regVars, cliVars, ownerVars, handler_owners, connVars, threads,
                   assert_failed, resVars>>

\* cw_ws_client::send(data, size):
\* bytes = mg_websocket_client_write(m_handle, MG_WEBSOCKET_OPCODE_BINARY, ...)
CwClientSend ==
    /\ object_type = "cw_ws_client"
    /\ pc = "live"
    /\ \E data \in Data, write_result \in WriteResults :
          sent' = ClientSendRecord(data,
                                   send_once(mg_websocket_write(m_handle, data), write_result),
                                   write_result)
    /\ UNCHANGED <<regVars, cliVars, ownerVars, handler_owners, connVars, threads,
                   assert_failed, resVars>>

\* send of a live object of any of the four classes; a server has its
\* registry with connects and closes.
NextSendResult ==
    \/ (object_type \in {"nw_ws_server", "cw_ws_server"} /\ NextSend)
    \/ NwClientSend
    \/ CwClientSend


(***************************************************************************)
(* The registry under concurrent calls: the connect and close callbacks of *)
(* cw_ws_server run on the worker threads of their connections, and        *)
(* ws_server_base takes no lock.  Every read and write of a map is a step  *)
(* of its own.                                                             *)
(***************************************************************************)

\* A thread that is in no registry call.
IdleThread == [pc |-> "idle", conn |-> NULL, id |-> 0]

\* The connections some thread is adding or removing.
InCall == {threads[t].conn : t \in Threads} \ {NULL}

\* The thread moves on, with this id in its local variable.
ThreadStep(t, next, id) ==
    threads' = [threads EXCEPT ![t] = [pc |-> next, conn |-> threads[t].conn, id |-> id]]

\* cw_handlers::connect is entered for a new connection: add_connection
\* starts, new_id sets id = 0.
ThreadAddBegin ==
    /\ \E t \in Threads, connection \in Peers \ ((DOMAIN held) \cup InCall) :
          /\ threads[t].pc = "idle"
          /\ threads' = [threads EXCEPT ![t] =
                            [pc |-> "add_probe", conn |-> connection, id |-> 0]]
    /\ UNCHANGED <<regVars, cliVars, ownerVars, handler_owners, connVars, sent,
                   assert_failed, resVars>>

\* new_id: one turn of while (find(++id)) {}
ThreadAddProbe ==
    /\ \E t \in Threads :
          /\ threads[t].pc = "add_probe"
          /\ LET next == (threads[t].id + 1) % IdModulus
             IN  ThreadStep(t, IF find_connection(m_map_from_id, next) # NULL
                               THEN "add_probe"
                               ELSE "add_write_connection", next)
    /\ UNCHANGED <<regVars, cliVars, ownerVars, handler_owners, connVars, sent,
                   assert_failed, resVars>>

\* add_connection: m_map_from_connection[connection] = id;
ThreadAddWriteConnection ==
    /\ \E t \in Threads :
          /\ threads[t].pc = "add_write_connection"
          /\ m_map_from_connection' =
                 map_assign(m_map_from_connection, threads[t].conn, threads[t].id)
          /\ ThreadStep(t, "add_write_id", threads[t].id)
    /\ UNCHANGED <<m_map_from_id, call, held, cliVars, ownerVars, handler_owners, connVars,
                   sent, assert_failed, resVars>>

\* add_connection: m_map_from_id[id] = connection;
ThreadAddWriteId ==
    /\ \E t \in Threads :
          /\ threads[t].pc = "add_write_id"
          /\ m_map_from_id' = map_assign(m_map_from_id, threads[t].id, threads[t].conn)
          /\ ThreadStep(t, "add_return", threads[t].id)
    /\ UNCHANGED <<m_map_from_connection, call, held, cliVars, ownerVars, handler_owners,
                   connVars, sent, assert_failed, resVars>>

\* add_connection: assert(m_map_from_connection.size() == m_map_from_id.size());
\* return id;  (a build with NDEBUG goes on after a failed assert)
ThreadAddReturn ==
    /\ \E t \in Threads :
          /\ threads[t].pc = "add_return"
          /\ call' = [op |-> "add", conn |-> threads[t].conn, id |-> threads[t].id,
                      size_before |-> size, id_before |-> find_id(held, threads[t].conn)]
          /\ held' = map_assign(held, threads[t].conn, threads[t].id)
          /\ threads' = [threads EXCEPT ![t] = IdleThread]
    /\ assert_failed' = (assert_failed \/ size # Cardinality(DOMAIN m_map_from_id))
    /\ UNCHANGED <<m_map_from_connection, m_map_from_id, cliVars, ownerVars, handler_owners,
                   connVars, sent, resVars>>

\* cw_handlers::close is entered for a connection that was connected:
\* remove_connection starts.
ThreadRemoveBegin ==
    /\ \E t \in Threads, connection \in (DOMAIN held) \ InCall :
          /\ threads[t].pc = "idle"
          /\ threads' = [threads EXCEPT ![t] =
                            [pc |-> "remove_read", conn |-> connection, id |-> 0]]
    /\ UNCHANGED <<regVars, cliVars, ownerVars, handler_owners, connVars, sent,
                   assert_failed, resVars>>

\* remove_connection: id = m_map_from_connection[connection]; operator[]
\* inserts the value 0 for a key that is absent.
ThreadRemoveRead ==
    /\ \E t \in Threads :
          /\ threads[t].pc = "remove_read"
          /\ m_map_from_connection' =
                 IF threads[t].conn \in DOMAIN m_map_from_connection
                 THEN m_map_from_connection
                 ELSE map_assign(m_map_from_connection, threads[t].conn, 0)
          /\ ThreadStep(t, "remove_erase_connection", m_map_from_connection'[threads[t].conn])
    /\ UNCHANGED <<m_map_from_id, call, held, cliVars, ownerVars, handler_owners, connVars,
                   sent, assert_failed, resVars>>

\* remove_connection: m_map_from_connection.erase(connection);
ThreadRemoveEraseConnection ==
    /\ \E t \in Threads :
          /\ threads[t].pc = "remove_erase_connection"
          /\ m_map_from_connection' = map_erase(m_map_from_connection, threads[t].conn)
          /\ ThreadStep(t, "remove_erase_id", threads[t].id)
    /\ UNCHANGED <<m_map_from_id, call, held, cliVars, ownerVars, handler_owners, connVars,
                   sent, assert_failed, resVars>>

\* remove_connection: m_map_from_id.erase(id);
ThreadRemoveEraseId ==
    /\ \E t \in Threads :
          /\ threads[t].pc = "remove_erase_id"
          /\ m_map_from_id' = map_erase(m_map_from_id, threads[t].id)
          /\ ThreadStep(t, "remove_return", threads[t].id)
    /\ UNCHANGED <<m_map_from_connection, call, held, cliVars, ownerVars, handler_owners,
                   connVars, sent, assert_failed, resVars>>

\* remove_connection: assert(m_map_from_connection.size() == m_map_from_id.size());
\* return id;
ThreadRemoveReturn ==
    /\ \E t \in Threads :
          /\ threads[t].pc = "remove_return"
          /\ call' = [op |-> "remove", conn |-> threads[t].conn, id |-> threads[t].id,
                      size_before |-> size, id_before |-> find_id(held, threads[t].conn)]
          /\ held' = map_erase(held, threads[t].conn)
          /\ threads' = [threads EXCEPT ![t] = IdleThread]
    /\ assert_failed' = (assert_failed \/ size # Cardinality(DOMAIN m_map_from_id))
    /\ UNCHANGED <<m_map_from_connection, m_map_from_id, cliVars, ownerVars, handler_owners,
                   connVars, sent, resVars>>

NextRegistryConcurrent ==
    \/ ThreadAddBegin
    \/ ThreadAddProbe
    \/ ThreadAddWriteConnection
    \/ ThreadAddWriteId
    \/ ThreadAddReturn
    \/ ThreadRemoveBegin
    \/ ThreadRemoveRead
    \/ ThreadRemoveEraseConnection
    \/ ThreadRemoveEraseId
    \/ ThreadRemoveReturn

(***************************************************************************)
(* Iteration over m_map_from_id by a thread of the caller (send to every   *)
(* connection, for_each_connection in the destructor), one turn of the     *)
(* loop per step, beside the callbacks of the backend.                     *)
(***************************************************************************)

\* m_map_from_id.end(): the position after every key.
map_end == IdModulus

\* m_map_from_id.begin(): the entry with the least key.
map_begin(m) == IF DOMAIN m = {} THEN map_end ELSE first_id(DOMAIN m)

\* it++ on an entry of the map: the entry with the next key.
map_next(m, key) ==
    LET later == {k \in DOMAIN m : k > key}
    IN  IF later = {} THEN map_end ELSE first_id(later)

\* The threads that are inside a loop over m_map_from_id.
Iterating == {t \in Threads : threads[t].pc = "iterate"}

\* for (auto it = m_map_from_id.begin(); it != m_map_from_id.end(); ...)
\* The loop over an empty map ends at once.
ThreadIterateBegin ==
    /\ \E t \in Threads :
          /\ threads[t].pc = "idle"
          /\ Iterating = {}
          /\ map_begin(m_map_from_id) # map_end
          /\ threads' = [threads EXCEPT ![t] =
                 [pc |-> "iterate", conn |-> NULL, id |-> map_begin(m_map_from_id)]]
    /\ UNCHANGED <<regVars, cliVars, ownerVars, handler_owners, connVars, sent,
                   assert_failed, resVars>>

\* The thread's iterator moves to this position; at end() the loop is over.
ThreadIterateTo(t, position) ==
    threads' = [threads EXCEPT ![t] =
                   IF position = map_end THEN IdleThread
                   ELSE [pc |-> "iterate", conn |-> NULL, id |-> position]]

\* One turn of the loop: func(it->second); it++. An iterator to an entry
\* that was erased is invalid: reading it->second and stepping it are
\* undefined, any connection value and any position may come out.
ThreadIterateVisit ==
    /\ \E t \in Threads :
          /\ threads[t].pc = "iterate"
          /\ LET key == threads[t].id
             IN  \E connection \in Peers \cup {NULL},
                    position \in (DOMAIN m_map_from_id) \cup {map_end} :
                    /\ key \in DOMAIN m_map_from_id =>
                           /\ connection = m_map_from_id[key]
                           /\ position = map_next(m_map_from_id, key)
                    /\ call' = [op |-> "visit", conn |-> connection, id |-> key,
                                size_before |-> size,
                                id_before |-> find_id(m_map_from_connection, connection)]
                    /\ ThreadIterateTo(t, position)
    /\ UNCHANGED <<m_map_from_connection, m_map_from_id, held, cliVars, ownerVars,
                   handler_owners, connVars, sent, assert_failed, resVars>>

\* A callback of the backend takes a step of add_connection or of
\* remove_connection. The callbacks of a nw_ws_server run on its serial
\* dispatch queue, one at a time; those of a cw_ws_server on one worker
\* thread per connection.
BackendStep ==
    /\ NextRegistryConcurrent
    /\ object_type = "nw_ws_server" =>
           Cardinality({t \in Threads : threads'[t].pc \notin {"idle", "iterate"}}) <= 1

NextRegistryIterate ==
    \/ BackendStep
    \/ ThreadIterateBegin
    \/ ThreadIterateVisit

(***************************************************************************)
(* The registry under a caller that breaks its contract: a close or ready  *)
(* callback for a connection that is not registered.                       *)
(***************************************************************************)

\* remove_connection(connection) for a connection that is not registered,
\* with its assert.
RemoveUnregistered ==
    /\ \E connection \in Connections \ DOMAIN held :
          remove_connection(connection)
    /\ assert_failed' = (assert_failed
                            \/ Cardinality(DOMAIN m_map_from_connection')
                                   # Cardinality(DOMAIN m_map_from_id'))
    /\ UNCHANGED <<cliVars, ownerVars, handler_owners, connVars, sent, threads, resVars>>

\* find(connection) for a connection that is not registered; find asserts
\* nothing.
FindUnregistered ==
    /\ \E connection \in Connections \ DOMAIN held :
          call' = [op |-> "find", conn |-> connection,
                   id |-> find_id(m_map_from_connection, connection),
                   size_before |-> size, id_before |-> find_id(held, connection)]
    /\ UNCHANGED <<m_map_from_connection, m_map_from_id, held, cliVars, auxVars>>

NextRegistryMisuse ==
    \/ Connect
    \/ Close
    \/ RemoveUnregistered
    \/ FindUnregistered
\* Fewer ids are in m_map_from_id than new_id can tell apart from the
\* not-found value and from 0.
RegistryHasRoom == Cardinality(DOMAIN m_map_from_id) < IdModulus - 2

\* add_connection(connection), with its assert, for a connection that is
\* registered: the backend reports a connection under a handle for which it
\* has not reported the close.
AddRegistered ==
    /\ RegistryHasRoom
    /\ \E connection \in DOMAIN held :
          add_connection(connection)
    /\ assert_failed' = (assert_failed
                            \/ Cardinality(DOMAIN m_map_from_connection')
                                   # Cardinality(DOMAIN m_map_from_id'))
    /\ UNCHANGED <<cliVars, ownerVars, handler_owners, connVars, sent, threads, resVars>>

\* add_connection for a connection that is not registered, while there is
\* room.
ConnectWithRoom ==
    /\ RegistryHasRoom
    /\ Connect

NextRegistryReadd ==
    \/ ConnectWithRoom
    \/ Close
    \/ AddRegistered


(***************************************************************************)
(* The lookups of the registry, called between connects and closes.        *)
(***************************************************************************)

\* A mutant of map_after_find: the lookup is made with operator[], which
\* inserts a value-initialised entry for an absent key.
map_after_subscript(m, k) ==
    IF k \in DOMAIN m THEN m ELSE map_assign(m, k, 0)

\* The std::map after m.find(k): as before.
map_after_find(m, k) == m

\* find(ws_connection_id id), for any id.
FindById ==
    /\ \E id \in Ids :
          /\ call' = [op |-> "find_id", conn |-> find_connection(m_map_from_id, id),
                      id |-> id, size_before |-> size, id_before |-> id]
          /\ m_map_from_id' = map_after_find(m_map_from_id, id)
    /\ UNCHANGED <<m_map_from_connection, held, cliVars, auxVars>>

\* find(const_connection_type connection), for any connection.
FindByConnection ==
    /\ \E connection \in Connections :
          /\ call' = [op |-> "find", conn |-> connection,
                      id |-> find_id(m_map_from_connection, connection),
                      size_before |-> size, id_before |-> find_id(held, connection)]
          /\ m_map_from_connection' = map_after_find(m_map_from_connection, connection)
    /\ UNCHANGED <<m_map_from_id, held, cliVars, auxVars>>

\* size(): a const member function, its value noted in id.
SizeCall ==
    /\ call' = [op |-> "size", conn |-> NULL, id |-> size, size_before |-> size,
                id_before |-> 0]
    /\ UNCHANGED <<m_map_from_connection, m_map_from_id, held, cliVars, auxVars>>

NextRegistryLookup ==
    \/ Connect
    \/ Close
    \/ FindById
    \/ FindByConnection
    \/ SizeCall

(***************************************************************************)
(* Specifications.                                                         *)
(***************************************************************************)

\* No copy of the owner pointer written, no peer connected, no send made,
\* no thread in a registry call.
InitAux ==
    /\ owner \in Owners
    /\ block_owner = NoOwner
    /\ user_data = NoOwner
    /\ m_owner = NoOwner
    /\ handler_owners = {}
    /\ conn_state = [connection \in Peers |-> "none"]
    /\ conn_cancel = [connection \in Peers |-> FALSE]
    /\ conn_receiving = [connection \in Peers |-> FALSE]
    /\ conn_id = [connection \in Peers |-> 0]
    /\ log = [connection \in Peers |-> <<>>]
    /\ sent = NoSend
    /\ threads = [t \in Threads |-> IdleThread]
    /\ assert_failed = FALSE
    /\ n_retain = 0
    /\ n_release = 0

\* A server's registry after construction; no client object is created.
InitRegistryOnly ==
    /\ InitRegistry
    /\ InitClient
    /\ InitAux
    /\ object_type = "nw_ws_client"

\* No server; a client object of either class is about to be created.
InitClientOnly ==
    /\ InitRegistry
    /\ InitClient
    /\ InitAux

\* A server as create has returned it: the listener of nw_ws_server ready
\* and stored, the context of cw_ws_server started; no peer has connected.
InitLiveServer ==
    /\ InitRegistry
    /\ object_type \in {"nw_ws_server", "cw_ws_server"}
    /\ pc = "live"
    /\ result = "object"
    /\ m_handle = 1
    /\ m_mode = IF object_type = "nw_ws_server" THEN "ready" ELSE "connecting"
    /\ expired = FALSE
    /\ ctor_cancelled = FALSE
    /\ destructed = 0
    /\ nw_state = IF object_type = "nw_ws_server" THEN "ready" ELSE "setup"
    /\ cancel_called = FALSE
    /\ queue = <<>>
    /\ running = "idle"
    /\ receiving = FALSE
    /\ cw_open = FALSE
    /\ n_close = 0
    /\ n_receive = 0
    /\ owner = "owner_a"
    /\ block_owner = IF object_type = "nw_ws_server" THEN owner ELSE NoOwner
    /\ user_data = IF object_type = "cw_ws_server" THEN owner ELSE NoOwner
    /\ m_owner = IF object_type = "cw_ws_server" THEN owner ELSE NoOwner
    /\ handler_owners = {}
    /\ conn_state = [connection \in Peers |-> "none"]
    /\ conn_cancel = [connection \in Peers |-> FALSE]
    /\ conn_receiving = [connection \in Peers |-> FALSE]
    /\ conn_id = [connection \in Peers |-> 0]
    /\ log = [connection \in Peers |-> <<>>]
    /\ sent = NoSend
    /\ threads = [t \in Threads |-> IdleThread]
    /\ assert_failed = FALSE
    /\ n_retain = IF object_type = "nw_ws_server" THEN 2 ELSE 1
    /\ n_release = 0

\* A client as create has returned it: the connection of nw_ws_client ready
\* and stored, its first receive outstanding; the connection of cw_ws_client
\* open.
InitLiveClient ==
    /\ InitRegistry
    /\ object_type \in {"nw_ws_client", "cw_ws_client"}
    /\ pc = "live"
    /\ result = "object"
    /\ m_handle = 1
    /\ m_mode = IF object_type = "nw_ws_client" THEN "ready" ELSE "connecting"
    /\ expired = FALSE
    /\ ctor_cancelled = FALSE
    /\ destructed = 0
    /\ nw_state = IF object_type = "nw_ws_client" THEN "ready" ELSE "setup"
    /\ cancel_called = FALSE
    /\ queue = <<>>
    /\ running = "idle"
    /\ receiving = (object_type = "nw_ws_client")
    /\ cw_open = (object_type = "cw_ws_client")
    /\ n_close = 0
    /\ n_receive = 0
    /\ owner = "owner_a"
    /\ block_owner = IF object_type = "nw_ws_client" THEN owner ELSE NoOwner
    /\ user_data = IF object_type = "cw_ws_client" THEN owner ELSE NoOwner
    /\ m_owner = NoOwner
    /\ handler_owners = {}
    /\ conn_state = [connection \in Peers |-> "none"]
    /\ conn_cancel = [connection \in Peers |-> FALSE]
    /\ conn_receiving = [connection \in Peers |-> FALSE]
    /\ conn_id = [connection \in Peers |-> 0]
    /\ log = [connection \in Peers |-> <<>>]
    /\ sent = NoSend
    /\ threads = [t \in Threads |-> IdleThread]
    /\ assert_failed = FALSE
    /\ n_retain = IF object_type = "nw_ws_client" THEN 2 ELSE 1
    /\ n_release = 0

\* A live cw_ws_server, whose callbacks run on civetweb's worker threads.
InitLiveCwServer ==
    /\ InitLiveServer
    /\ object_type = "cw_ws_server"

\* A registry holding any set of ids, Ids being all the values of
\* ws_connection_id, and the connections added to it.
InitExhaust ==
    /\ InitRegistryAnyIds
    /\ InitClient
    /\ InitAux
    /\ object_type = "cw_ws_server"

\* add_connection up to the exhaustion of the ids.
SpecRegistryExhaust == InitExhaust /\ [][NextRegistryExhaust]_vars

\* The registry with its lookups.
SpecRegistryLookup == InitRegistryOnly /\ [][NextRegistryLookup]_vars

\* The registry under callers that keep its contract.
SpecRegistry == InitRegistryOnly /\ [][NextRegistry]_vars

\* One create call on a client class, and the life of the object it returns.
SpecClient == InitClientOnly /\ [][NextClient]_vars

\* SpecClient with the busy-waiting loops of wait_for_completion scheduled:
\* a thread spinning in the loop keeps running, so once the loop's exit
\* condition holds and stays true the loop is left.
SpecClientFair ==
    /\ SpecClient
    /\ WF_vars(WaitTimedReturn)
    /\ WF_vars(WaitUntimedReturn)

\* The blocks m_queue runs for the object's own connection or listener.
QueueBlocks ==
    \/ StateBlockOther
    \/ StateBlockReady
    \/ StateBlockReadyReceive
    \/ StateBlockWaiting
    \/ StateBlockClosed
    \/ StateBlockCloseHandler
    \/ StateBlockRelease
    \/ ListenerStateBlockOther
    \/ ListenerStateBlockReady
    \/ ListenerStateBlockClosed
    \/ ReceiveBlockContent
    \/ ReceiveBlockAgain
    \/ ReceiveBlockNoContent
    \/ ReceiveBlockError

\* The steps of the thread that calls create and runs the destructor.
CallerSteps ==
    \/ NwConstruct
    \/ ListenerConstruct
    \/ WaitTimedReturn
    \/ CtorCheckCompleted
    \/ CtorCancel
    \/ WaitUntimedReturn
    \/ CtorStore
    \/ create_validate
    \/ NwDestructorCancel
    \/ ListenerDestructorCancel
    \/ NwDestructorWaitReturn
    \/ CwDestructor
    \/ CwServerDestructor

\* SpecClient with its threads scheduled: the calling thread keeps running
\* (its loops spin), the steady clock reaches exit_time, the serial queue
\* runs the blocks put on it, and the framework reports cancelled for a
\* connection or listener that was cancelled.
SpecClientScheduled ==
    /\ SpecClient
    /\ WF_vars(CallerSteps)
    /\ WF_vars(Timeout)
    /\ WF_vars(QueueBlocks)
    /\ SF_vars(NwCancelled)

\* A server that create has returned, its peers, and its deletion.
SpecServer == InitLiveServer /\ [][NextServer]_vars

\* The registry and the send of a live server.
SpecSend == InitLiveServer /\ [][NextSend]_vars

\* The registry of a live cw_ws_server with its callbacks on several threads.
SpecRegistryConcurrent == InitLiveCwServer /\ [][NextRegistryConcurrent]_vars

\* send of a live client or server.
SpecSendResult == (InitLiveServer \/ InitLiveClient) /\ [][NextSendResult]_vars

\* The registry of a live server under connects for registered connections.
SpecRegistryReadd == InitLiveServer /\ [][NextRegistryReadd]_vars

\* The registry of a live server of either class, a thread of the caller
\* iterating over it beside the callbacks of the backend.
SpecRegistryIterate == InitLiveServer /\ [][NextRegistryIterate]_vars

\* The registry of a live server under callbacks for unregistered connections.
SpecRegistryMisuse == InitLiveServer /\ [][NextRegistryMisuse]_vars

(***************************************************************************)
(* Properties of the registry.                                             *)
(***************************************************************************)

\* The connections the caller has added and not removed, and those a map holds.
Registered == (DOMAIN held) \cup (DOMAIN m_map_from_connection)

\* C1: after every add_connection / remove_connection the two maps have the
\* same size and are inverses of each other: find(find(c)) = c for every
\* registered connection and find(find(id)) = id for every issued id.
C1_RegistryBijection ==
    /\ Cardinality(DOMAIN m_map_from_id) = Cardinality(DOMAIN m_map_from_connection)
    /\ \A c \in Registered :
          find_connection(m_map_from_id, find_id(m_map_from_connection, c)) = c
    /\ \A id \in (DOMAIN m_map_from_id) \cup {find_id(held, c) : c \in DOMAIN held} :
          find_id(m_map_from_connection, find_connection(m_map_from_id, id)) = id

\* C1 witness: a remove has just returned and two connections stay registered.
C1_Witness ==
    /\ call.op = "remove"
    /\ Cardinality(DOMAIN held) = 2
    /\ size = 2

\* C2: no two registered connections hold the same id, and the id
\* add_connection has just returned is the id of no other registered
\* connection.
C2_UniqueIds ==
    /\ \A c1 \in Registered : \A c2 \in Registered :
          c1 # c2 => find_id(m_map_from_connection, c1) # find_id(m_map_from_connection, c2)
    /\ call.op = "add" =>
          \A c \in Registered \ {call.conn} :
              /\ find_id(m_map_from_connection, c) # call.id
              /\ find_id(held, c) # call.id

\* C2 witness: add_connection has just reissued an id that a removed
\* connection held (an id below the number of connections fills a hole).
C2_Witness ==
    /\ call.op = "add"
    /\ call.id < size

\* C3: add_connection never returns id 0.
C3_NoIdZero ==
    call.op = "add" => call.id # 0

\* C3 witness: add_connection has returned with every handle registered.
C3_Witness ==
    /\ call.op = "add"
    /\ DOMAIN held = Connections

\* C4: right after id = add_connection(c), find(id) = c and find(c) = id.
C4_AddPostcondition ==
    call.op = "add" =>
        /\ find_connection(m_map_from_id, call.id) = call.conn
        /\ find_id(m_map_from_connection, call.conn) = call.id

\* C4 witness: an add has returned id 2 with another connection registered.
C4_Witness ==
    /\ call.op = "add"
    /\ call.id = 2
    /\ call.size_before = 1

\* C5: remove_connection(c) returns the id c held; afterwards find(c) is the
\* not-found sentinel, find(that id) is null and size() is one less.
C5_RemovePostcondition ==
    call.op = "remove" =>
        /\ call.id = call.id_before
        /\ find_id(m_map_from_connection, call.conn) = InvalidId
        /\ find_connection(m_map_from_id, call.id_before) = NULL
        /\ size = call.size_before - 1

\* C5 witness: of three registered connections the holder of id 2 was removed.
C5_Witness ==
    /\ call.op = "remove"
    /\ call.id_before = 2
    /\ call.size_before = 3

\* C6: size() is the number of connections added and not yet removed.
C6_SizeCountsLive ==
    size = Cardinality(DOMAIN held)

\* C6 witness: three connections are registered after a remove and an add.
C6_Witness ==
    /\ call.op = "add"
    /\ call.id = 1
    /\ Cardinality(DOMAIN held) = 3

\* C25: add_connection returns the smallest id >= 1 that is not a key of
\* m_map_from_id when it is called; an id that remove_connection freed,
\* smaller than every other free id, is what the next add_connection returns.
C25_SmallestFreeId ==
    [][call'.op = "add" =>
          /\ call'.id >= 1
          /\ call'.id \notin DOMAIN m_map_from_id
          /\ \A id \in 1 .. (call'.id - 1) : id \in DOMAIN m_map_from_id]_vars

\* C25 witness: add_connection has returned id 2, which a removed connection
\* had held, while ids 1 and 3 were in use.
C25_Witness ==
    /\ call.op = "add"
    /\ call.id = 2
    /\ call.size_before = 2
    /\ DOMAIN m_map_from_id = {1, 2, 3}

\* C26: with ws_connection_id IdBits wide, add_connection gives a connection
\* neither the not-found value of find(connection) nor 0, also when every
\* id from 1 to 2^IdBits - 1 is in use.
C26_SentinelAndZeroNeverIssued ==
    call.op = "add" => (call.id # InvalidId /\ call.id # 0)

\* The ids the caller holds for its live connections.
HeldIds == {held[c] : c \in DOMAIN held}

\* C27: find(id) returns null for an id no live connection holds,
\* find(connection) returns the not-found value for a connection that is not
\* registered, and find and size() leave both maps as they were.
C27_LookupsAreReadOnly ==
    /\ []((call.op = "find_id" /\ call.id \notin HeldIds) => call.conn = NULL)
    /\ []((call.op = "find" /\ call.conn \notin DOMAIN held) => call.id = InvalidId)
    /\ [][call'.op \in {"find_id", "find", "size"} =>
              UNCHANGED <<m_map_from_connection, m_map_from_id>>]_vars

\* C27 witness: find(1) has returned null after the holder of id 1 was
\* removed, two connections being registered.
C27_Witness ==
    /\ call.op = "find_id"
    /\ call.id = 1
    /\ call.conn = NULL
    /\ HeldIds = {2, 3}

\* C37: add_connection(c) and remove_connection(c) change the entries of c
\* only: every other registered connection keeps its id and is still what
\* that id leads to, and every id other than the one of the call keeps its
\* connection.
C37_OnlyOwnEntryChanges ==
    [][call'.op \in {"add", "remove"} =>
          /\ \A d \in Connections \ {call'.conn} :
                /\ find_id(m_map_from_connection', d) = find_id(m_map_from_connection, d)
                /\ d \in DOMAIN m_map_from_connection =>
                      find_connection(m_map_from_id', m_map_from_connection[d])
                          = find_connection(m_map_from_id, m_map_from_connection[d])
          /\ \A id \in Ids \ {call'.id} :
                find_connection(m_map_from_id', id) = find_connection(m_map_from_id, id)]_vars

\* C37 witness: a connection was added under id 2, which a close had freed,
\* beside the holders of ids 1 and 3.
C37_Witness ==
    /\ call.op = "add"
    /\ call.id = 2
    /\ call.size_before = 2
    /\ {1, 3} \subseteq DOMAIN m_map_from_id
    /\ size = 3

(***************************************************************************)
(* Properties of the completion state and of create.                       *)
(***************************************************************************)

\* C7: m_mode only moves connecting -> ready, connecting -> closed or
\* ready -> closed, whatever the order in which the framework reports the
\* states of the connection.
C7_CompletionMonotonic ==
    [][ \/ m_mode' = m_mode
        \/ <<m_mode, m_mode'>> \in {<<"connecting", "ready">>,
                                    <<"connecting", "closed">>,
                                    <<"ready", "closed">>} ]_vars

\* C7 witness: the state is closed after it had been ready (m_handle was
\* stored, which the constructor does only when it reads ready).
C7_Witness ==
    /\ object_type = "nw_ws_client"
    /\ m_handle # NULL
    /\ m_mode = "closed"

\* C8: a thread in wait_for_completion, with or without a timeout, leaves it
\* once the state is no longer connecting.
C8_WaitReturns ==
    (pc \in {"wait_timed", "wait_untimed"} /\ m_mode # "connecting")
        ~> (pc \notin {"wait_timed", "wait_untimed"})

\* C8 witness: the wait without timeout of the constructor's timeout branch
\* has returned after the cancelled callback set the state to closed.
C8_Witness ==
    /\ pc = "store"
    /\ ctor_cancelled
    /\ m_mode = "closed"

\* C30: wait_for_completion without a time_out is left only when the state
\* is no longer connecting, however long ago the deadline of the earlier wait
\* passed, and is left once it is; wait_for_completion with a time_out is
\* left only when the state is no longer connecting or the deadline has
\* passed, and is left once the deadline has passed, the state still
\* connecting or not.
C30_TimeOutZeroWaitsForever ==
    /\ [][(pc = "wait_untimed" /\ pc' # "wait_untimed") => m_mode # "connecting"]_vars
    /\ (pc = "wait_untimed" /\ m_mode # "connecting") ~> (pc # "wait_untimed")
    /\ [][(pc = "wait_timed" /\ pc' # "wait_timed") =>
              (m_mode # "connecting" \/ expired)]_vars
    /\ (pc = "wait_timed" /\ expired) ~> (pc # "wait_timed")

\* C30 witness: the wait with a time_out was left on its deadline with the
\* state still connecting, and the wait without a time_out that followed
\* the cancel is still spinning, the state being connecting.
C30_Witness ==
    /\ pc = "wait_untimed"
    /\ ctor_cancelled
    /\ expired
    /\ m_mode = "connecting"

\* C9: create returns no object whose m_handle is null, and when it returns
\* null the destructor of the object it constructed has run exactly once.
C9_CreateValidity ==
    /\ result = "object" => m_handle # NULL
    /\ result = "null" => destructed = 1

\* C9 witness: create has returned null after the constructor timed out and
\* cancelled the connection.
C9_Witness ==
    /\ result = "null"
    /\ object_type = "nw_ws_client"
    /\ ctor_cancelled
    /\ destructed = 1

\* C10: when create returns null, neither the receive nor the close handler
\* has been called for that attempt.
C10_NoHandlerOnFailedCreate ==
    result = "null" => (n_close = 0 /\ n_receive = 0)

(***************************************************************************)
(* Properties of the callbacks against the constructor and the destructor. *)
(***************************************************************************)

\* The constructor of the object has returned.
ConstructorReturned == pc \in {"constructed", "live", "destructor", "wait_closed", "done"}

\* The state callbacks the framework has queued and m_queue has yet to run.
QueuedStateBlocks ==
    {i \in 1 .. Len(queue) :
        /\ queue[i][1] = NULL
        /\ queue[i][2] \in {"preparing", "waiting", "ready", "failed", "cancelled"}}

\* C11: once the constructor of nw_ws_client or nw_ws_server has returned
\* with m_handle null, no state callback of the object is running and none
\* is still to run: what the callback does after set(closed) is over.
C11_NoCallbackAfterFailedConstructor ==
    (/\ object_type \in {"nw_ws_client", "nw_ws_server"}
     /\ ConstructorReturned
     /\ m_handle = NULL)
        => (running = "idle" /\ QueuedStateBlocks = {})

\* C12: once the destructor of nw_ws_client has returned, no block of the
\* client is running or queued, so no handler is called any more.
C12_NoCallbackAfterDestructor ==
    (object_type = "nw_ws_client" /\ pc = "done")
        => (running = "idle" /\ queue = <<>>)

\* C21: the destructor of nw_ws_client / nw_ws_server cancels the connection
\* or listener when the state is ready and then waits: while it waits with
\* the state still ready the cancel has been called, when it has returned
\* the state is closed, and once entered it does return.
C21_DestructorCancelsThenWaits ==
    /\ [](object_type \in {"nw_ws_client", "nw_ws_server"} =>
             /\ (pc = "wait_closed" /\ m_mode = "ready") => cancel_called
             /\ pc = "done" => m_mode = "closed")
    /\ (object_type \in {"nw_ws_client", "nw_ws_server"}
            /\ pc \in {"destructor", "wait_closed"})
           ~> (pc = "done")

\* C21 witness: the destructor of a client that create had returned has
\* cancelled the ready connection and returned.
C21_Witness ==
    /\ object_type = "nw_ws_client"
    /\ result = "object"
    /\ pc = "done"
    /\ cancel_called
    /\ ~ctor_cancelled
    /\ nw_state = "cancelled"

\* C22: in the timeout branch of the constructor, the wait that follows the
\* cancel is left only with the state closed: the constructor goes on to
\* store or release the handle only after the cancelled or failed callback.
C22_TimeoutBranchWaitsForClosed ==
    (pc = "store" /\ ctor_cancelled) => m_mode = "closed"

\* No block is queued or running, and a cancel that was called has been
\* reported: no callback of the object is pending.
NoCallbackPending ==
    /\ queue = <<>>
    /\ running = "idle"
    /\ cancel_called => nw_state = "cancelled"

\* C23: once the destructor has returned and no callback is pending, every
\* reference the object took on its native connection, listener or context
\* has been released, whatever the class of the object.
C23_DestructorReleasesNative ==
    (pc = "done" /\ NoCallbackPending) => n_release >= n_retain

\* C24: a create call on nw_ws_client or nw_ws_server returns, with the
\* object or with null, when the framework reports cancelled for every
\* cancel.
C24_CreateReturns ==
    (object_type \in {"nw_ws_client", "nw_ws_server"} /\ pc = "new")
        ~> (result # "pending")

\* C24 witness: create on nw_ws_server has returned null after the timeout
\* had elapsed and the constructor had cancelled the listener.
C24_Witness ==
    /\ object_type = "nw_ws_server"
    /\ result = "null"
    /\ expired
    /\ ctor_cancelled
    /\ nw_state = "cancelled"

\* An object of the classes over the Network framework.
NwObject == object_type \in {"nw_ws_client", "nw_ws_server"}

\* C31: the constructor of nw_ws_client and of nw_ws_server leaves m_handle
\* non-null exactly when the state is ready at its last test; create returns
\* the object exactly when m_handle was left non-null, null otherwise, and
\* the state of a returned object is never connecting.
C31_HandleStoredIffReady ==
    /\ [][(NwObject /\ pc = "store" /\ pc' # "store") =>
              (m_handle' # NULL <=> m_mode = "ready")]_vars
    /\ [][(NwObject /\ pc = "constructed" /\ pc' # "constructed") =>
              (pc' = "live" <=> m_handle # NULL)]_vars
    /\ []((NwObject /\ result = "object") => (m_handle # NULL /\ m_mode # "connecting"))
    /\ []((NwObject /\ result = "null") => m_handle = NULL)

\* C31 witness: create has returned the object, the state having been ready
\* at the constructor's last test and closed by a later failed callback.
C31_Witness ==
    /\ NwObject
    /\ pc = "live"
    /\ result = "object"
    /\ m_handle # NULL
    /\ m_mode = "closed"

\* C32: create returns no object of nw_ws_client or nw_ws_server whose
\* connection or listener the constructor cancelled in its timeout branch.
C32_CancelledIsNotReturned ==
    (NwObject /\ result = "object") => ~ctor_cancelled

\* C38: of the connection of a nw_ws_client and of the listener of a
\* nw_ws_server no more references are released than create and retain
\* took, and when the destructor has returned and no callback is running or
\* queued, all of them have been released.
C38_ReferencesBalanced ==
    NwObject =>
        /\ n_release <= n_retain
        /\ (pc = "done" /\ NoCallbackPending) => n_release = n_retain

(***************************************************************************)
(* Properties of a server with its peers.                                  *)
(***************************************************************************)

\* The blocks of peer connections that m_queue has yet to run.
QueuedConnectionBlocks == {i \in 1 .. Len(queue) : queue[i][1] # NULL}

\* C13: when the destructor of nw_ws_server has returned, every connection
\* has been removed from the registry, every connection whose connect
\* handler was called has had its close handler called, and no block of a
\* connection is still to run.
C13_DestructorWaitsForConnections ==
    (object_type = "nw_ws_server" /\ pc = "done")
        => /\ DOMAIN m_map_from_connection = {}
           /\ DOMAIN m_map_from_id = {}
           /\ \A c \in Peers : Calls(c, "connect") # {} => Calls(c, "close") # {}
           /\ QueuedConnectionBlocks = {}

\* C14: in the handler calls for one connection, connect comes before any
\* ready or receive, ready before any receive, and no call follows close.
C14_HandlerOrder ==
    \A c \in Peers : \A i \in 1 .. Len(log[c]) :
        /\ log[c][i].h \in {"ready", "receive"}
              => \E j \in 1 .. (i - 1) : log[c][j].h = "connect"
        /\ log[c][i].h = "receive"
              => \E j \in 1 .. (i - 1) : log[c][j].h = "ready"
        /\ log[c][i].h = "close" => i = Len(log[c])

C33_CloseAtMostOnce ==
    /\ object_type = "nw_ws_client" => n_close <= 1
    /\ object_type = "nw_ws_server" =>
           \A c \in Peers : Cardinality(Calls(c, "close")) <= 1

\* The handler calls made for the connection up to its first close call
\* (all of them while there is none).
UpToClose(c) ==
    {i \in 1 .. Len(log[c]) : \A j \in 1 .. (i - 1) : log[c][j].h # "close"}

\* C34: the handler calls made for one connection of a server, from its
\* connect to its close, all carry the id that the connect call carried.
C34_SameIdFromConnectToClose ==
    \A c \in Peers : \A i \in UpToClose(c) :
        /\ log[c][1].h = "connect"
        /\ log[c][i].id = log[c][1].id

\* C34 witness: a connection of a nw_ws_server that was given id 2 has had
\* its connect, ready, receive and close calls.
C34_Witness ==
    /\ object_type = "nw_ws_server"
    /\ \E c \in Peers :
          /\ Len(log[c]) >= 4
          /\ log[c][1].id = 2
          /\ \A h \in {"connect", "ready", "receive", "close"} :
                \E i \in UpToClose(c) : log[c][i].h = h

(***************************************************************************)
(* Properties of send.                                                     *)
(***************************************************************************)

\* The backend sends of the last send call that went to this connection.
WritesTo(c) == {i \in 1 .. Len(sent.writes) : sent.writes[i].to = c}

\* C17: send(data, size) makes exactly one backend send, of the data as
\* given, to every connection registered at the call, and no other.
C17_BroadcastOncePerConnection ==
    sent.kind = "all" =>
        /\ \A c \in Connections :
              Cardinality(WritesTo(c)) = IF c \in sent.live THEN 1 ELSE 0
        /\ Len(sent.writes) = Cardinality(sent.live)
        /\ \A i \in 1 .. Len(sent.writes) :
              sent.writes[i].data = sent.data /\ sent.writes[i].opcode = "binary"

\* C17 witness: a broadcast went to the two connections left after a third
\* had been removed.
C17_Witness ==
    /\ sent.kind = "all"
    /\ sent.live = DOMAIN held
    /\ Cardinality(sent.live) = 2
    /\ call.op = "remove"

\* C18: send(id, data, size) makes its backend send to the connection that
\* holds id and to no other registered connection, to none when no
\* connection holds id; and a send call leaves both maps as they were.
C18_SendToHolderOnly ==
    /\ [](sent.kind = "one" =>
             /\ \A c \in Connections :
                   Cardinality(WritesTo(c)) = IF c = sent.holder THEN 1 ELSE 0
             /\ \A i \in 1 .. Len(sent.writes) : sent.writes[i].data = sent.data)
    /\ [][sent' # sent => UNCHANGED <<m_map_from_connection, m_map_from_id>>]_vars

\* C18 witness: a send to id 1 after its holder was removed, with another
\* connection registered.
C18_Witness ==
    /\ sent.kind = "one"
    /\ sent.id = 1
    /\ sent.holder = NULL
    /\ sent.live = DOMAIN held
    /\ sent.live # {}
    /\ call.op = "remove"
    /\ call.id = 1

\* C28: a send(id, data, size) made after the close of the connection that
\* held id is not delivered to the closed connection: every backend send of
\* the call goes to a connection that is registered at the call and holds
\* id then, the later connection when id was issued again.
C28_NoSendToClosedConnection ==
    [][(sent' # sent /\ sent'.kind = "one") =>
          \A i \in 1 .. Len(sent'.writes) :
              sent'.writes[i].to # NULL =>
                  /\ sent'.writes[i].to \in DOMAIN held
                  /\ held[sent'.writes[i].to] = sent'.id]_vars

\* C28 witness: a send to id 1 went to the connection that was given id 1
\* after an earlier holder of id 1 had been closed (id 2 being in use, id 1
\* was free only through that close).
C28_Witness ==
    /\ sent.kind = "one"
    /\ sent.id = 1
    /\ call.op = "add"
    /\ call.id = 1
    /\ call.size_before >= 1
    /\ sent.holder = call.conn
    /\ sent.live = DOMAIN held
    /\ WritesTo(call.conn) # {}

\* C39: a send call makes each backend send once, whatever the backend
\* reports: one for a send of a client and for a send of a server to an id,
\* one for each connection registered at the call for a send to all.
C39_SendNeverRetries ==
    /\ sent.kind = "client" =>
          /\ Len(sent.writes) = 1
          /\ sent.writes[1].to = m_handle
          /\ sent.writes[1].data = sent.data
    /\ sent.kind = "one" => Len(sent.writes) = 1
    /\ sent.kind = "all" =>
          /\ Len(sent.writes) = Cardinality(sent.live)
          /\ \A c \in sent.live : Cardinality(WritesTo(c)) = 1

\* C39 witness: a send of a cw_ws_client for which the backend reported an
\* error made one backend send.
C39_Witness ==
    /\ object_type = "cw_ws_client"
    /\ sent.kind = "client"
    /\ sent.result = "error"
    /\ Len(sent.writes) = 1

(***************************************************************************)
(* Properties of the registry under concurrent and under unregistered      *)
(* calls.                                                                  *)
(***************************************************************************)

\* C19: with add_connection and remove_connection running on several
\* threads, no assert fails, and whenever no call is in progress the maps
\* have the same size, are inverses of each other on the registered
\* connections, and no two registered connections were given the same id.
C19_ConcurrentRegistryConsistent ==
    /\ ~assert_failed
    /\ (\A t \in Threads : threads[t].pc = "idle") =>
          /\ Cardinality(DOMAIN m_map_from_id) = Cardinality(DOMAIN m_map_from_connection)
          /\ \A c \in DOMAIN held :
                /\ find_id(m_map_from_connection, c) = held[c]
                /\ find_connection(m_map_from_id, held[c]) = c
          /\ \A c1 \in DOMAIN held : \A c2 \in DOMAIN held :
                c1 # c2 => held[c1] # held[c2]

\* C20: remove_connection or find(connection) for a connection that is not
\* registered does not return: an assert fails.
C20_UnregisteredIsAsserted ==
    (call.op \in {"remove", "find"} /\ call.id_before = InvalidId) => assert_failed

\* C29: while a thread of the caller iterates over m_map_from_id beside the
\* callbacks of the backend, its iterator never refers to an entry that was
\* erased, and it never visits a connection that remove_connection has
\* taken out of m_map_from_connection.
C29_IteratorNeverRefersToErased ==
    /\ \A t \in Iterating : threads[t].id \in DOMAIN m_map_from_id
    /\ call.op = "visit" => call.id_before # InvalidId

\* C35: the assert of add_connection never fails, also when the connection
\* is registered already, and after add_connection every id in m_map_from_id
\* is the id of a connection in m_map_from_connection.
C35_AddKeepsMapsInStep ==
    /\ ~assert_failed
    /\ call.op = "add" =>
          \A id \in DOMAIN m_map_from_id :
              \E c \in DOMAIN m_map_from_connection : m_map_from_connection[c] = id

\* C36: remove_connection for a connection that is not registered returns 0
\* and leaves both maps as they were.
C36_RemoveUnregisteredChangesNothing ==
    [][(call'.op = "remove" /\ call'.id_before = InvalidId) =>
          /\ call'.id = 0
          /\ m_map_from_connection' = m_map_from_connection
          /\ m_map_from_id' = m_map_from_id]_vars

\* C36 witness: remove_connection has returned 0 for a connection that was
\* not among the two registered ones.
C36_Witness ==
    /\ call.op = "remove"
    /\ call.id_before = InvalidId
    /\ call.id = 0
    /\ call.size_before = 2
    /\ size = 2

=============================================================================
